---- MODULE Spec2Model ----
(***************************************************************************)
(* Model of the internship-map profile store (services/dataService.ts),   *)
(* the boot-time migration effect of App.tsx and the two entry points     *)
(* that create profiles (CSV import, add-profile form).                   *)
(*                                                                         *)
(* Conventions.                                                            *)
(*  - A profile is a record; a JavaScript value that is absent or falsy   *)
(*    is "" for strings, 0 for numbers/dates and <<>> for the coordinates *)
(*    object and the travel-time object.                                  *)
(*  - Coordinates are <<lat, lng>> in units of 0.005 degree, so the       *)
(*    source's tolerance of 0.01 degree is CoordTol = 2 units.            *)
(*    A travel-time triple is <<driving, walking, bus>>, a component the  *)
(*    source leaves undefined being -1.  An address object is its         *)
(*    fullAddress string.                                                  *)
(*  - Instants and dates are day numbers; `now' is the wall clock.        *)
(*  - localStorage[STORAGE_KEY] is the pair (raw, store): raw says        *)
(*    whether the key is absent, holds malformed JSON or holds the JSON   *)
(*    of the array `store'.                                               *)
(***************************************************************************)
EXTENDS Integers, Sequences, FiniteSets, TLC

VARIABLES
    raw,            \* "absent" | "corrupt" | "json": state of localStorage[STORAGE_KEY]
    store,          \* the array serialized under STORAGE_KEY (<<>> unless raw = "json")
    flags,          \* migration-flag keys currently holding "true"
    profiles,       \* App state `profiles' (the in-memory array)
    loadedProfiles, \* local `loadedProfiles' of the mount effect while it runs
    needs,          \* flags found unset by the reads at the top of the mount effect
    ran,            \* migration steps whose body executed in the current boot
    pc,             \* position of the mount effect, or "idle"
    now,            \* wall clock
    boots,          \* number of completed boots
    ops,            \* store calls, user operations and reloads so far
    created,        \* number of ids generateProfileId has handed out
    storeAtBoot,    \* history: stored array when the current/last boot started
    bootEnds,       \* history: stored array at the end of the last two boots
    last,           \* history: the last store call / user operation and its outcome
    locationType,   \* App state: "all" | "physical" | "remote"
    filterType,     \* App state: "all" | "driving" | "walking" | "bus"
    filterTime,     \* App state: minutes
    selectedFields, \* App state: the selected field tags
    filteredProfiles, \* App state: the map-eligible physical profiles
    remoteProfiles, \* App state: the list-eligible remote profiles
    isReadOnly,     \* App: the page was opened with ?readonly=true
    sessionAuthenticated, \* sessionStorage holds internship_map_authenticated = "true"
    isAuthenticated, \* App state
    showPasswordPrompt, \* App state
    showAddForm,    \* App state: the add-profile form is open
    showCSVUpload,  \* App state: the CSV-upload dialog is open
    addressQuery,   \* AddProfileForm state: the text of the address box
    timeoutId,      \* AddProfileForm: the query of the pending debounce timer, "" when none
    requests,       \* address searches in flight, in the order they were issued
    issued,         \* history: number of address searches issued so far
    addressOptions, \* AddProfileForm state: the options shown
    lookup          \* history: the last external lookup, its environment and its outcome

vars == <<raw, store, flags, profiles, loadedProfiles, needs, ran, pc, now,
          boots, ops, created, storeAtBoot, bootEnds, last,
          locationType, filterType, filterTime, selectedFields,
          filteredProfiles, remoteProfiles,
          isReadOnly, sessionAuthenticated, isAuthenticated, showPasswordPrompt,
          showAddForm, showCSVUpload,
          addressQuery, timeoutId, requests, issued, addressOptions, lookup>>

\* the access gate, the dialogs, the address search and the external lookups
authVars == <<isReadOnly, sessionAuthenticated, isAuthenticated, showPasswordPrompt,
              showAddForm, showCSVUpload>>
searchVars == <<addressQuery, timeoutId, requests, issued, addressOptions>>
uiVars == <<authVars, searchVars, lookup>>

\* an authenticated editing session with no dialog open and no lookup made
UiInit ==
    /\ isReadOnly = FALSE
    /\ sessionAuthenticated = TRUE
    /\ isAuthenticated = TRUE
    /\ showPasswordPrompt = FALSE
    /\ showAddForm = FALSE
    /\ showCSVUpload = FALSE
    /\ addressQuery = ""
    /\ timeoutId = ""
    /\ requests = <<>>
    /\ issued = 0
    /\ addressOptions = <<>>
    /\ lookup = [fn |-> "none"]

----------------------------------------------------------------------------
(* Bounds *)

MaxInit == 2        \* records in the initial stored array
MaxOps == 1         \* store calls and user operations after the first boot
MaxBoots == 2       \* runs of the mount effect (the first load and the reloads)
MaxShown == 3       \* records of the in-memory array the filter is applied to

(* Program constants *)

CoordTol == 2       \* 0.01 degree, in units of 0.005 degree
StartOffset == 90   \* days before now of a synthesized start date
Duration == 120     \* days from start to a synthesized end date
DefaultFilterTime == 30     \* useState<FilterTime>(30)

----------------------------------------------------------------------------
(* Generic helpers *)

Abs(x) == IF x < 0 THEN -x ELSE x

Ids(s) == {s[i].id : i \in DOMAIN s}

UniqueIds(s) == \A i, j \in DOMAIN s : s[i].id = s[j].id => i = j

Count(s, id) == Cardinality({i \in DOMAIN s : s[i].id = id})

\* Array.prototype.findIndex, 1-based, 0 when nothing matches
FindIndex(s, P(_)) ==
    IF \E i \in DOMAIN s : P(s[i])
    THEN CHOOSE i \in DOMAIN s : P(s[i]) /\ \A j \in 1..(i-1) : ~P(s[j])
    ELSE 0

\* id.startsWith('sample_')
StartsWithSample(id) == id \in {"sample_0", "sample_1", "sample_9", "sample_20"}

\* name.toLowerCase().includes('asdf')
IncludesAsdf(name) == name \in {"asdf", "ASDF test"}

----------------------------------------------------------------------------
(* Profile records *)

\* A complete user-submitted physical profile; the other records are variations.
BaseProfile ==
    [ id |-> "profile_1", firstName |-> "Ann", lastName |-> "Lee",
      email |-> "ann@x.org", internshipCompany |-> "Acme Welding",
      field |-> "welding", internshipContactName |-> "Pat",
      internshipSiteEmail |-> "pat@site.org", isRemote |-> FALSE,
      internshipAddress |-> "1 Main St, Pittsburgh", coordinates |-> <<50, 50>>, travelTime |-> <<10, 30, 20>>,
      rating |-> 5, ratingComment |-> "Loved it",
      question1_whatMadeUnique |-> "u-q1",
      question2_meaningfulContribution |-> "u-q2",
      question3_skillsLearned |-> "u-q3",
      question4_mostSurprising |-> "", question5_specificMoment |-> "",
      question6_futureGoals |-> "",
      startDate |-> 40, endDate |-> 70, createdAt |-> 80, updatedAt |-> 80 ]

\* The Reference Dataset (data/sampleData.ts): one physical record, the anchor
\* record and one remote record.
Sample1 ==
    [BaseProfile EXCEPT !.id = "sample_1", !.firstName = "Sam", !.lastName = "Poe",
        !.internshipCompany = "Carnegie Library", !.field = "library science",
        !.coordinates = <<10, 20>>, !.travelTime = <<12, 45, 25>>,
        !.rating = 4, !.ratingComment = "Great",
        !.question1_whatMadeUnique = "s1-q1",
        !.question2_meaningfulContribution = "s1-q2",
        !.question3_skillsLearned = "s1-q3",
        !.question4_mostSurprising = "s1-q4",
        !.startDate = 10, !.endDate = 60, !.createdAt = 1, !.updatedAt = 1]

Sample9 ==
    [Sample1 EXCEPT !.id = "sample_9", !.firstName = "Wil", !.lastName = "Roy",
        !.internshipCompany = "Andy Warhol Museum", !.field = "art",
        !.coordinates = <<30, 40>>, !.travelTime = <<15, 50, 0>>,
        !.rating = 5, !.ratingComment = "Inspiring",
        !.question1_whatMadeUnique = "s9-q1",
        !.question2_meaningfulContribution = "s9-q2",
        !.question3_skillsLearned = "s9-q3",
        !.question4_mostSurprising = ""]

Sample20 ==
    [Sample1 EXCEPT !.id = "sample_20", !.firstName = "Rae", !.lastName = "Kim",
        !.internshipCompany = "Remote Consulting Co", !.field = "consulting",
        !.isRemote = TRUE, !.internshipAddress = "", !.coordinates = <<>>,
        !.travelTime = <<>>,
        !.rating = 3, !.ratingComment = "Fine",
        !.question1_whatMadeUnique = "s20-q1",
        !.question2_meaningfulContribution = "s20-q2",
        !.question3_skillsLearned = "s20-q3",
        !.question4_mostSurprising = ""]

sampleProfiles == <<Sample1, Sample9, Sample20>>

\* Records an earlier release or an earlier session may have left in the store.
\* A remote profile imported from CSV whose company is also a reference company.
UserRemote ==
    [BaseProfile EXCEPT !.id = "profile_2", !.firstName = "Bo",
        !.internshipCompany = "Carnegie Library", !.field = "library science",
        !.isRemote = TRUE, !.internshipAddress = "", !.coordinates = <<>>,
        !.travelTime = <<>>]

\* A test profile, entered for the anchor company
UserAsdf ==
    [BaseProfile EXCEPT !.id = "profile_3", !.firstName = "asdf",
        !.internshipCompany = "Andy Warhol Museum"]

\* A user profile of an older schema at a reference location (10.005 units away):
\* no travel times, rating, narrative answers or end date.
UserLegacy ==
    [BaseProfile EXCEPT !.id = "profile_4", !.firstName = "Cy",
        !.internshipCompany = "Carnegie Library", !.field = "library science",
        !.coordinates = <<11, 20>>, !.travelTime = <<>>,
        !.rating = 0, !.ratingComment = "",
        !.question1_whatMadeUnique = "",
        !.question2_meaningfulContribution = "",
        !.question3_skillsLearned = "", !.endDate = 0]

\* The reference record sample_1 as an older release shipped it
OldSample1 ==
    [Sample1 EXCEPT !.travelTime = <<>>, !.rating = 0, !.ratingComment = "",
        !.question1_whatMadeUnique = "", !.question2_meaningfulContribution = "",
        !.question3_skillsLearned = "", !.question4_mostSurprising = "",
        !.startDate = 0, !.endDate = 0]

\* A reference record the current Reference Dataset no longer contains, as an
\* older release shipped it: no required narrative answers and no start date
OldSample0 ==
    [Sample1 EXCEPT !.id = "sample_0", !.firstName = "Old",
        !.internshipCompany = "Closed Cafe", !.field = "restaurant",
        !.coordinates = <<70, 70>>,
        !.question1_whatMadeUnique = "", !.question2_meaningfulContribution = "",
        !.question3_skillsLearned = "", !.startDate = 0]

\* A user profile at a reference location (0.005 degrees away) that carries its
\* own travel times
UserEdited ==
    [BaseProfile EXCEPT !.id = "profile_14", !.firstName = "Di",
        !.internshipCompany = "Carnegie Library", !.field = "library science",
        !.coordinates = <<10, 21>>, !.travelTime = <<20, 60, 35>>,
        !.rating = 2, !.ratingComment = ""]

\* The reference record sample_1 stored without its rating and rating comment
Sample1NoRating ==
    [Sample1 EXCEPT !.rating = 0, !.ratingComment = ""]

Pool == <<BaseProfile, UserRemote, UserAsdf, UserLegacy, OldSample1, OldSample0, UserEdited,
          Sample1NoRating>>

----------------------------------------------------------------------------
(* Persistent Record Store: services/dataService.ts *)

\* getAllProfiles: the stored array, or [] when the key is absent, when
\* localStorage throws (fault = "unavailable") or when JSON.parse throws.
GetAllProfiles(rw, st, fault) ==
    IF fault = "unavailable" THEN [val |-> <<>>, threw |-> FALSE]
    ELSE IF rw = "absent" THEN [val |-> <<>>, threw |-> FALSE]
    ELSE IF rw = "corrupt" THEN [val |-> <<>>, threw |-> FALSE]
    ELSE [val |-> st, threw |-> FALSE]

\* localStorage.setItem throws when storage is unavailable or the quota is exhausted
SetItemThrows(fault) == fault \in {"unavailable", "quota"}

\* saveProfile without the findIndex lookup: every save pushes
SaveProfileAlwaysAppends(rw, st, profile, t, fault) ==
    LET all == GetAllProfiles(rw, st, fault).val
    IN  IF SetItemThrows(fault)
        THEN [ret |-> FALSE, raw |-> rw, store |-> st, threw |-> FALSE]
        ELSE [ret |-> TRUE, raw |-> "json", store |-> Append(all, profile), threw |-> FALSE]

\* saveProfile that stores the caller's record unchanged on update
SaveProfileKeepsUpdatedAt(rw, st, profile, t, fault) ==
    LET all == GetAllProfiles(rw, st, fault).val
        existingIndex == FindIndex(all, LAMBDA p : p.id = profile.id)
        next == IF existingIndex > 0
                THEN [all EXCEPT ![existingIndex] = profile]
                ELSE Append(all, profile)
    IN  IF SetItemThrows(fault)
        THEN [ret |-> FALSE, raw |-> rw, store |-> st, threw |-> FALSE]
        ELSE [ret |-> TRUE, raw |-> "json", store |-> next, threw |-> FALSE]

\* saveProfile without its try/catch: a failing write propagates
SaveProfileUncaught(rw, st, profile, t, fault) ==
    LET all == GetAllProfiles(rw, st, fault).val
        existingIndex == FindIndex(all, LAMBDA p : p.id = profile.id)
        next == IF existingIndex > 0
                THEN [all EXCEPT ![existingIndex] = [profile EXCEPT !.updatedAt = t]]
                ELSE Append(all, profile)
    IN  IF SetItemThrows(fault)
        THEN [ret |-> FALSE, raw |-> rw, store |-> st, threw |-> TRUE]
        ELSE [ret |-> TRUE, raw |-> "json", store |-> next, threw |-> FALSE]

\* saveProfile(profile) at instant t
SaveProfile(rw, st, profile, t, fault) ==
    LET all == GetAllProfiles(rw, st, fault).val
        existingIndex == FindIndex(all, LAMBDA p : p.id = profile.id)
        next == IF existingIndex > 0
                THEN [all EXCEPT ![existingIndex] = [profile EXCEPT !.updatedAt = t]]
                ELSE Append(all, profile)
    IN  IF SetItemThrows(fault)
        THEN [ret |-> FALSE, raw |-> rw, store |-> st, threw |-> FALSE]
        ELSE [ret |-> TRUE, raw |-> "json", store |-> next, threw |-> FALSE]

\* deleteProfile with the filter predicate inverted
DeleteProfileInverted(rw, st, id, fault) ==
    LET all == GetAllProfiles(rw, st, fault).val
        filtered == SelectSeq(all, LAMBDA p : p.id = id)
    IN  IF SetItemThrows(fault)
        THEN [ret |-> FALSE, raw |-> rw, store |-> st, threw |-> FALSE]
        ELSE [ret |-> TRUE, raw |-> "json", store |-> filtered, threw |-> FALSE]

\* deleteProfile(id)
DeleteProfile(rw, st, id, fault) ==
    LET all == GetAllProfiles(rw, st, fault).val
        filtered == SelectSeq(all, LAMBDA p : p.id # id)
    IN  IF SetItemThrows(fault)
        THEN [ret |-> FALSE, raw |-> rw, store |-> st, threw |-> FALSE]
        ELSE [ret |-> TRUE, raw |-> "json", store |-> filtered, threw |-> FALSE]

\* clearAllProfiles
ClearAllProfiles(rw, st, fault) ==
    IF fault = "unavailable"
    THEN [raw |-> rw, store |-> st, threw |-> FALSE]
    ELSE [raw |-> "absent", store |-> <<>>, threw |-> FALSE]

\* The find callback of initializeWithSampleData, lines 98-104, from sample i on:
\* the index of the first matching sample, 0 when none matches, -1 when the
\* callback throws a TypeError reading .lat of an absent coordinates object.
RECURSIVE SeedFind(_, _, _)
SeedFind(profile, samples, i) ==
    IF i > Len(samples) THEN 0
    ELSE LET sample == samples[i] IN
        IF sample.id = profile.id THEN i
        ELSE IF sample.internshipCompany = profile.internshipCompany
        THEN IF sample.coordinates = <<>> \/ profile.coordinates = <<>> THEN -1
             ELSE IF /\ Abs(sample.coordinates[1] - profile.coordinates[1]) < CoordTol
                     /\ Abs(sample.coordinates[2] - profile.coordinates[2]) < CoordTol
                  THEN i
                  ELSE SeedFind(profile, samples, i + 1)
        ELSE SeedFind(profile, samples, i + 1)

\* lines 93-94
IsSampleProfile(profile, samples) ==
    \/ StartsWithSample(profile.id)
    \/ \E i \in DOMAIN samples : samples[i].internshipCompany = profile.internshipCompany

\* lines 107-119: the merged record
SeedMerge(profile, sampleProfile) ==
    LET tt == IF profile.travelTime = <<>> /\ sampleProfile.travelTime # <<>>
              THEN sampleProfile.travelTime ELSE profile.travelTime
        rt == IF profile.rating = 0 /\ sampleProfile.rating # 0
              THEN sampleProfile.rating ELSE profile.rating
        rc == IF profile.ratingComment = "" /\ sampleProfile.ratingComment # ""
              THEN sampleProfile.ratingComment ELSE profile.ratingComment
    IN  [profile EXCEPT !.travelTime = tt, !.rating = rt, !.ratingComment = rc]

\* the map callback, lines 91-123; only called when it does not throw
SeedMap(profile, samples) ==
    IF IsSampleProfile(profile, samples)
    THEN LET k == SeedFind(profile, samples, 1) IN
         IF k > 0 THEN SeedMerge(profile, samples[k]) ELSE profile
    ELSE profile

SeedMapThrows(profile, samples) ==
    IsSampleProfile(profile, samples) /\ SeedFind(profile, samples, 1) = -1

\* initializeWithSampleData without the emptiness test: always writes the samples
InitializeAlwaysOverwrites(rw, st, samples, fault) ==
    IF SetItemThrows(fault) THEN [raw |-> rw, store |-> st, threw |-> FALSE]
    ELSE [raw |-> "json", store |-> samples, threw |-> FALSE]

\* initializeWithSampleData(sampleProfiles)
InitializeWithSampleData(rw, st, samples, fault) ==
    LET existing == GetAllProfiles(rw, st, fault).val
        updated == [i \in DOMAIN existing |-> SeedMap(existing[i], samples)]
        same == [raw |-> rw, store |-> st, threw |-> FALSE]
    IN  IF Len(existing) = 0
        THEN IF SetItemThrows(fault) THEN same
             ELSE [raw |-> "json", store |-> samples, threw |-> FALSE]
        ELSE IF \E i \in DOMAIN existing : SeedMapThrows(existing[i], samples)
             THEN same
             ELSE IF SetItemThrows(fault) THEN same
             ELSE [raw |-> "json", store |-> updated, threw |-> FALSE]

----------------------------------------------------------------------------
(* utils/profileUtils.ts *)

\* generateProfileId: the k-th id this session generates
NewIds == <<"profile_5", "profile_6", "profile_7", "profile_8", "profile_9",
            "profile_10", "profile_11", "profile_12", "profile_13">>

\* createProfile(data) at instant t with generated id
CreateProfile(data, id, t) ==
    [data EXCEPT !.id = id, !.createdAt = t, !.updatedAt = t]

----------------------------------------------------------------------------
(* Migration Engine: the mount effect of App.tsx, lines 44-308 *)

migrationKey == "internship_map_travel_time_migrated"
ratingMigrationKey == "internship_map_rating_migrated"
sampleDataMigrationKey == "internship_map_sample_data_v2_migrated"
warholMigrationKey == "internship_map_warhol_added"
remoteMigrationKey == "internship_map_remote_profiles_added"
questionsMigrationKey == "internship_map_questions_dates_migrated"

FlagKeys == {migrationKey, ratingMigrationKey, sampleDataMigrationKey,
             warholMigrationKey, remoteMigrationKey, questionsMigrationKey}

\* saveProfile applied to each record of ps in order (storage working)
RECURSIVE SaveEach(_, _, _, _)
SaveEach(rw, st, ps, t) ==
    IF ps = <<>> THEN [raw |-> rw, store |-> st]
    ELSE LET r == SaveProfile(rw, st, Head(ps), t, "none")
         IN  SaveEach(r.raw, r.store, Tail(ps), t)

\* deleteProfile applied to each id of ids in order (storage working)
\* the cleanup without its deleteProfile calls
DeleteEachNothing(rw, st, ps) == [raw |-> rw, store |-> st]

RECURSIVE DeleteEach(_, _, _)
DeleteEach(rw, st, ps) ==
    IF ps = <<>> THEN [raw |-> rw, store |-> st]
    ELSE LET r == DeleteProfile(rw, st, Head(ps).id, "none")
         IN  DeleteEach(r.raw, r.store, Tail(ps))

\* lines 104-113, 131-140, 241-249: index of the matching sample, 0 when none
SampleMatch(profile) ==
    LET byId == FindIndex(sampleProfiles, LAMBDA s : s.id = profile.id)
    IN  IF byId > 0 THEN byId
        ELSE FindIndex(sampleProfiles, LAMBDA s :
                /\ s.internshipCompany = profile.internshipCompany
                /\ s.coordinates # <<>> /\ profile.coordinates # <<>>
                /\ Abs(s.coordinates[1] - profile.coordinates[1]) < CoordTol
                /\ Abs(s.coordinates[2] - profile.coordinates[2]) < CoordTol)

\* the replacement writing the samples alone
ReplaceSamplesOnly(loaded) == sampleProfiles

\* the replacement without the strip of the old reference records
ReplaceSamplesNoStrip(loaded) == loaded \o sampleProfiles

\* lines 64-66: the array the reference-set replacement writes
ReplaceSamples(loaded) ==
    SelectSeq(loaded, LAMBDA p : ~StartsWithSample(p.id)) \o sampleProfiles

\* lines 78-80
NewRemoteProfiles(loaded) ==
    LET existingRemoteIds == {loaded[i].id : i \in {j \in DOMAIN loaded : loaded[j].isRemote}}
    IN  SelectSeq(sampleProfiles, LAMBDA p : p.isRemote /\ p.id \notin existingRemoteIds)

\* the presence test by id alone
HasWarholIdOnly(loaded) ==
    \E i \in DOMAIN loaded : loaded[i].id = "sample_9"

\* lines 89-91
HasWarhol(loaded) ==
    \E i \in DOMAIN loaded :
        loaded[i].internshipCompany = "Andy Warhol Museum" \/ loaded[i].id = "sample_9"

\* line 101: some record without travel times or with an all-zero triple
LacksTravelTime(p) ==
    p.travelTime = <<>> \/ (p.travelTime[1] = 0 /\ p.travelTime[2] = 0 /\ p.travelTime[3] = 0)

\* lines 115-120
TravelChanged(p) ==
    SampleMatch(p) > 0 /\ sampleProfiles[SampleMatch(p)].travelTime # <<>>

TravelUpdate(p) ==
    IF TravelChanged(p)
    THEN [p EXCEPT !.travelTime = sampleProfiles[SampleMatch(p)].travelTime]
    ELSE p

\* line 128
LacksRating(p) == p.rating = 0 \/ p.ratingComment = ""

\* lines 142-151
RatingChanged(p) == SampleMatch(p) > 0 /\ LacksRating(p)

RatingUpdate(p) ==
    IF RatingChanged(p)
    THEN [p EXCEPT !.rating = sampleProfiles[SampleMatch(p)].rating,
                   !.ratingComment = sampleProfiles[SampleMatch(p)].ratingComment]
    ELSE p

\* lines 162-168
LacksQuestions(p) ==
    \/ p.question1_whatMadeUnique = ""
    \/ p.question2_meaningfulContribution = ""
    \/ p.question3_skillsLearned = ""
    \/ p.startDate = 0
    \/ p.endDate = 0

\* a || b on strings and on numbers
OrStr(a, b) == IF a # "" THEN a ELSE b
OrNum(a, b) == IF a # 0 THEN a ELSE b

\* field.includes(keyword) for the field tags of the model
FieldIncludes(field, keyword) ==
    <<field, keyword>> \in { <<"library science", "library">>, <<"art", "art">>,
                             <<"consulting", "consulting">> }

\* lines 179-225: the keyword category of getQuestion1/2/3
FieldCategory(field) ==
    IF FieldIncludes(field, "library") \/ FieldIncludes(field, "education") THEN "library"
    ELSE IF \/ FieldIncludes(field, "health") \/ FieldIncludes(field, "therapy")
            \/ FieldIncludes(field, "veterinary") THEN "health"
    ELSE IF \/ FieldIncludes(field, "art") \/ FieldIncludes(field, "writing")
            \/ FieldIncludes(field, "podcast") THEN "art"
    ELSE IF \/ FieldIncludes(field, "tech") \/ FieldIncludes(field, "coding")
            \/ FieldIncludes(field, "robotics") THEN "tech"
    ELSE IF FieldIncludes(field, "remote") \/ FieldIncludes(field, "consulting") THEN "remote"
    ELSE "generic"

\* generateDummyData that synthesizes the dates only
GenerateDummyDataDatesOnly(profile, t) ==
    LET startDate == OrNum(profile.startDate, t - StartOffset)
        endDate == OrNum(profile.endDate, startDate + Duration)
    IN  [profile EXCEPT !.startDate = startDate, !.endDate = endDate]

\* lines 169-237
GenerateDummyData(profile, t) ==
    LET cat == FieldCategory(profile.field)
        startDate == OrNum(profile.startDate, t - StartOffset)
        endDate == OrNum(profile.endDate, startDate + Duration)
    IN  [profile EXCEPT
            !.startDate = startDate,
            !.endDate = endDate,
            !.question1_whatMadeUnique = OrStr(@, "dummy-q1-" \o cat),
            !.question2_meaningfulContribution = OrStr(@, "dummy-q2-" \o cat),
            !.question3_skillsLearned = OrStr(@, "dummy-q3-" \o cat),
            !.question4_mostSurprising = OrStr(@, "dummy-q4"),
            !.question5_specificMoment = OrStr(@, "dummy-q5"),
            !.question6_futureGoals = OrStr(@, "dummy-q6")]

\* lines 252-287
QuestionsChanged(p) == LacksQuestions(p)

QuestionsUpdate(p, t) ==
    IF ~LacksQuestions(p) THEN p
    ELSE IF SampleMatch(p) > 0
    THEN LET m == sampleProfiles[SampleMatch(p)] IN
         [p EXCEPT
            !.startDate = OrNum(@, m.startDate),
            !.endDate = OrNum(@, m.endDate),
            !.question1_whatMadeUnique = OrStr(@, m.question1_whatMadeUnique),
            !.question2_meaningfulContribution = OrStr(@, m.question2_meaningfulContribution),
            !.question3_skillsLearned = OrStr(@, m.question3_skillsLearned),
            !.question4_mostSurprising = OrStr(@, m.question4_mostSurprising),
            !.question5_specificMoment = OrStr(@, m.question5_specificMoment),
            !.question6_futureGoals = OrStr(@, m.question6_futureGoals)]
    ELSE GenerateDummyData(p, t)

\* lines 296-297
HasAsdf(profile) == IncludesAsdf(profile.firstName) \/ IncludesAsdf(profile.lastName)

----------------------------------------------------------------------------
(* CSV import: components/CSVUpload.tsx *)

\* parseBoolean, lines 103-106
ParseBoolean(value) == value \in {"yes", "true", "1", "y", "Yes", "TRUE"}

\* parseInt(value, 10) on the strings of the model; NaN is -1000
NaN == -1000
ParseInt(value) ==
    CASE value = "0" -> 0 [] value = "1" -> 1 [] value = "3" -> 3 [] value = "4" -> 4
      [] value = "5" -> 5 [] value = "7" -> 7 [] value = "15" -> 15 [] value = "20" -> 20
      [] OTHER -> NaN

\* parseTravelTime, lines 108-112: -1 is undefined
ParseTravelTime(value) ==
    IF value = "" THEN -1
    ELSE IF ParseInt(value) = NaN THEN -1 ELSE ParseInt(value)

\* what the geocoding service answers for an address: coordinates, or <<>> when
\* geocodeAddress throws (mapsService.ts lines 62-70)
GeocodeAddress(address) ==
    IF address = "460 S Graham St" THEN <<52, 52>> ELSE <<>>

\* isPittsburghArea, mapsService.ts lines 280-288, on (fullAddress, city)
IsPittsburghArea(fullAddress, city) ==
    \/ fullAddress \in {"460 S Graham St, Pittsburgh", "1 Main St, Pittsburgh"}
    \/ city \in {"Pittsburgh"}

RowRemote ==
    [firstName |-> "Dee", lastName |-> "Fox", email |-> "dee@x.org",
     internshipCompany |-> "Carnegie Library", field |-> "library science",
     internshipContactName |-> "Kay", internshipSiteEmail |-> "kay@site.org",
     isRemote |-> "yes", startDate |-> 100, endDate |-> 150, address |-> "",
     travelTimeDriving |-> "", travelTimeWalking |-> "", travelTimeBus |-> "",
     question1_whatmadeunique |-> "r-q1", question2_meaningfulcontribution |-> "r-q2",
     question3_skillslearned |-> "r-q3", question4_mostsurprising |-> "",
     question5_specificmoment |-> "", question6_futuregoals |-> "",
     accomplishments |-> "", rating |-> "4", ratingComment |-> "Good"]

RowPhysical ==
    [RowRemote EXCEPT !.firstName = "Eli", !.lastName = "ASDF test",
        !.internshipCompany = "Robo Lab",
        !.field = "robotics", !.isRemote = "no", !.address = "460 S Graham St",
        !.travelTimeDriving = "15", !.rating = "5"]

RowNoEmail == [RowRemote EXCEPT !.firstName = "Flo", !.email = ""]

RowBadGeo == [RowPhysical EXCEPT !.firstName = "Gus", !.address = "Nowhere Rd"]

RowLegacy ==
    [RowRemote EXCEPT !.firstName = "Hal", !.question1_whatmadeunique = "",
        !.question2_meaningfulcontribution = "", !.question3_skillslearned = "",
        !.accomplishments = "built things", !.rating = "7"]

RowBadEmail == [RowRemote EXCEPT !.firstName = "Ira", !.email = "ira-at-x.org"]

RowBackwards == [RowRemote EXCEPT !.firstName = "Jay", !.startDate = 150, !.endDate = 100]

\* a line of the file after the header: a data row, or a blank line
CsvLine(row) == [blank |-> FALSE, row |-> row]
BlankLine == [blank |-> TRUE, row |-> RowRemote]

\* the data lines of the uploaded files
CsvFiles ==
    { <<CsvLine(RowRemote)>>,
      <<CsvLine(RowPhysical), BlankLine, CsvLine(RowNoEmail), CsvLine(RowRemote)>>,
      <<CsvLine(RowBadGeo), CsvLine(RowLegacy)>>,
      <<CsvLine(RowRemote), CsvLine(RowBadEmail), CsvLine(RowBackwards)>>,
      <<BlankLine>> }

\* parseCSV, lines 49-101: blank lines are dropped before the rows are numbered
ParseCSV(lines) ==
    LET kept == SelectSeq(lines, LAMBDA l : ~l.blank)
    IN  [i \in DOMAIN kept |-> kept[i].row]

\* lines 138-236: the error of a row, "" when the row is valid
RowError(row) ==
    LET hasNewFormat == \/ row.question1_whatmadeunique # ""
                        \/ row.question2_meaningfulcontribution # ""
                        \/ row.question3_skillslearned # ""
        question1 == OrStr(row.question1_whatmadeunique, row.accomplishments)
        question2 == OrStr(row.question2_meaningfulcontribution, row.accomplishments)
        question3 == OrStr(row.question3_skillslearned, row.accomplishments)
        isRemote == ParseBoolean(OrStr(row.isRemote, "no"))
        rating == ParseInt(row.rating)
    IN  IF \/ row.firstName = "" \/ row.lastName = "" \/ row.email = ""
           \/ row.internshipCompany = "" \/ row.field = ""
           \/ row.internshipContactName = "" \/ row.internshipSiteEmail = ""
           \/ row.startDate = 0 \/ row.endDate = 0
           \/ row.rating = "" \/ row.ratingComment = ""
        THEN "Missing required fields"
        ELSE IF ~hasNewFormat /\ row.accomplishments = ""
        THEN "Missing required questions"
        ELSE IF question1 = "" \/ question2 = "" \/ question3 = ""
        THEN "All three required questions must be provided"
        ELSE IF rating = NaN \/ rating < 1 \/ rating > 5
        THEN "Rating must be between 1 and 5"
        ELSE IF ~isRemote /\ row.address = ""
        THEN "Address is required for non-remote internships"
        ELSE IF ~isRemote /\ GeocodeAddress(row.address) = <<>>
        THEN "Could not geocode address"
        ELSE IF ~isRemote /\ ~IsPittsburghArea(row.address, "Pittsburgh")
        THEN "Address must be in Pittsburgh area"
        ELSE IF /\ ~isRemote
                /\ ParseTravelTime(row.travelTimeDriving) \in {-1, 0}
                /\ ParseTravelTime(row.travelTimeBus) \in {-1, 0}
        THEN "At least one travel time (driving or bus) is required"
        ELSE ""

\* lines 214-238: the profile of a valid row
RowProfile(row, id, t) ==
    LET isRemote == ParseBoolean(OrStr(row.isRemote, "no")) IN
    CreateProfile(
        [ id |-> "", firstName |-> row.firstName, lastName |-> row.lastName,
          email |-> row.email, internshipCompany |-> row.internshipCompany,
          field |-> row.field, internshipContactName |-> row.internshipContactName,
          internshipSiteEmail |-> row.internshipSiteEmail, isRemote |-> isRemote,
          internshipAddress |-> IF isRemote THEN "" ELSE row.address,
          coordinates |-> IF isRemote THEN <<>> ELSE GeocodeAddress(row.address),
          travelTime |-> IF isRemote THEN <<>>
                         ELSE << ParseTravelTime(row.travelTimeDriving),
                                 ParseTravelTime(row.travelTimeWalking),
                                 ParseTravelTime(row.travelTimeBus) >>,
          rating |-> ParseInt(row.rating), ratingComment |-> row.ratingComment,
          question1_whatMadeUnique |->
              OrStr(row.question1_whatmadeunique, row.accomplishments),
          question2_meaningfulContribution |->
              OrStr(row.question2_meaningfulcontribution, row.accomplishments),
          question3_skillsLearned |->
              OrStr(row.question3_skillslearned, row.accomplishments),
          question4_mostSurprising |-> row.question4_mostsurprising,
          question5_specificMoment |-> row.question5_specificmoment,
          question6_futureGoals |-> row.question6_futuregoals,
          startDate |-> row.startDate, endDate |-> row.endDate,
          createdAt |-> 0, updatedAt |-> 0 ], id, t)

\* the loop of handleFileUpload, lines 134-244, from row i on: the created
\* profiles, the row numbers in error and the store after the saves
RECURSIVE ImportRows(_, _, _, _, _, _)
ImportRows(rows, i, rw, st, n, t) ==
    IF i > Len(rows) THEN [createdProfiles |-> <<>>, errors |-> <<>>, raw |-> rw, store |-> st]
    ELSE IF RowError(rows[i]) # ""
    THEN LET rest == ImportRows(rows, i + 1, rw, st, n, t)
         IN  [rest EXCEPT !.errors = <<i + 1>> \o @]
    ELSE LET profile == RowProfile(rows[i], NewIds[n + 1], t)
             r == SaveProfile(rw, st, profile, t, "none")
             rest == ImportRows(rows, i + 1, r.raw, r.store, n + 1, t)
         IN  [rest EXCEPT !.createdProfiles = <<profile>> \o @]

----------------------------------------------------------------------------
(* Add-profile form: components/AddProfileForm.tsx *)

\* z.string().email() on the strings of the model (utils/validation.ts line 53)
IsEmail(value) == value \in {"ann@x.org", "pat@site.org", "dee@x.org", "kay@site.org"}

\* form data as typed, with the text of the address box and the address option
\* selected ("" when none is selected)
FormRemote ==
    [BaseProfile EXCEPT !.id = "", !.firstName = "Ivy", !.isRemote = TRUE,
        !.internshipCompany = "Remote Consulting Co", !.field = "consulting",
        !.question1_whatMadeUnique = "form answer one",
        !.question2_meaningfulContribution = "form answer two",
        !.question3_skillsLearned = "form answer three",
        !.internshipAddress = "", !.coordinates = <<>>, !.travelTime = <<>>]

FormPhysical ==
    [BaseProfile EXCEPT !.id = "", !.firstName = "Jo", !.travelTime = <<20, -1, -1>>,
        !.question1_whatMadeUnique = "form answer one",
        !.question2_meaningfulContribution = "form answer two",
        !.question3_skillsLearned = "form answer three"]

FormInputs ==
    { [data |-> FormRemote, addressInput |-> "", selectedAddress |-> "", city |-> ""],
      [data |-> FormPhysical, addressInput |-> "460 S Graham St, Pittsburgh",
       selectedAddress |-> "460 S Graham St, Pittsburgh", city |-> "Pittsburgh"],
      [data |-> FormPhysical, addressInput |-> "9 Elm St, Erie",
       selectedAddress |-> "9 Elm St, Erie", city |-> "Erie"],
      [data |-> FormPhysical, addressInput |-> "460 S", selectedAddress |-> "", city |-> ""],
      [data |-> FormPhysical, addressInput |-> "", selectedAddress |-> "", city |-> ""],
      [data |-> [FormRemote EXCEPT !.email = "ivy-at-x.org"],
       addressInput |-> "", selectedAddress |-> "", city |-> ""],
      [data |-> [FormRemote EXCEPT !.startDate = 70, !.endDate = 40],
       addressInput |-> "", selectedAddress |-> "", city |-> ""],
      [data |-> [FormRemote EXCEPT !.lastName = ""],
       addressInput |-> "", selectedAddress |-> "", city |-> ""] }

\* profileFormSchema, utils/validation.ts lines 50-113: the first message of the
\* schema for the form data, "" when the data pass
SchemaError(in) ==
    LET data == in.data IN
    IF data.firstName = "" THEN "First name is required"
    ELSE IF data.lastName = "" THEN "Last name is required"
    ELSE IF ~IsEmail(data.email) THEN "Invalid email address"
    ELSE IF data.internshipCompany = "" THEN "Company name is required"
    ELSE IF data.field = "" THEN "Please select an internship field"
    ELSE IF data.internshipContactName = "" THEN "Supervisor name is required"
    ELSE IF ~IsEmail(data.internshipSiteEmail) THEN "Invalid supervisor email address"
    ELSE IF data.startDate = 0 THEN "Start date is required"
    ELSE IF data.endDate = 0 THEN "End date is required"
    ELSE IF \/ Len(data.question1_whatMadeUnique) < 10
            \/ Len(data.question2_meaningfulContribution) < 10
            \/ Len(data.question3_skillsLearned) < 10
    THEN "Please provide at least 10 characters"
    ELSE IF data.rating < 1 \/ data.rating > 5 THEN "Please provide a rating"
    ELSE IF data.ratingComment = "" THEN "Please provide a comment about your rating"
    ELSE IF ~data.isRemote /\ in.addressInput = ""
    THEN "Address is required for in-person internships"
    ELSE IF ~data.isRemote /\ data.travelTime[1] = -1 /\ data.travelTime[3] = -1
    THEN "Please provide at least one travel time (Car or Bus) for in-person internships"
    ELSE IF data.endDate < data.startDate THEN "End date must be on or after start date"
    ELSE ""

\* onSubmit, lines 114-129: the error that stops the submission, "" when none
FormError(in) ==
    IF in.data.isRemote THEN ""
    ELSE IF in.selectedAddress = "" THEN "Please select an address"
    ELSE IF ~IsPittsburghArea(in.selectedAddress, in.city)
    THEN "Please select an address in the Pittsburgh area"
    ELSE ""

\* onSubmit that drops the coordinates of the selected address
FormProfileNoCoordinates(in, id, t) ==
    CreateProfile(
        [in.data EXCEPT
            !.internshipAddress = IF in.data.isRemote THEN "" ELSE in.selectedAddress,
            !.coordinates = <<>>,
            !.travelTime = IF in.data.isRemote THEN <<>> ELSE @], id, t)

\* onSubmit, lines 138-174: the profile created
FormProfile(in, id, t) ==
    CreateProfile(
        [in.data EXCEPT
            !.internshipAddress = IF in.data.isRemote THEN "" ELSE in.selectedAddress,
            !.coordinates = IF in.data.isRemote THEN <<>>
                            ELSE GeocodeAddress("460 S Graham St"),
            !.travelTime = IF in.data.isRemote THEN <<>> ELSE @], id, t)

----------------------------------------------------------------------------
(* Filter Engine: the filter effect of App.tsx, lines 327-382 *)

filterSettings == <<locationType, filterType, filterTime, selectedFields>>
filterVars == <<locationType, filterType, filterTime, selectedFields,
                filteredProfiles, remoteProfiles>>

\* lines 346-350: the travel-time component of the selected mode; -1 is undefined
TimeInMinutes(profile, type) ==
    IF type = "driving" THEN profile.travelTime[1]
    ELSE IF type = "walking" THEN profile.travelTime[2]
    ELSE profile.travelTime[3]

\* lines 341-353: the predicate of the travel-time filter
WithinTravelTime(profile, type, time) ==
    IF profile.travelTime = <<>> THEN FALSE
    ELSE LET timeInMinutes == TimeInMinutes(profile, type)
         IN  timeInMinutes # -1 /\ timeInMinutes > 0 /\ timeInMinutes <= time

\* the physical list with the travel-time filter forgetting the zero test
PhysicalProfilesZeroPasses(ps, location, type, time, fields) ==
    LET physical == IF location = "remote" THEN <<>>
                    ELSE SelectSeq(ps, LAMBDA p : ~p.isRemote)
        timed == IF type # "all"
                 THEN SelectSeq(physical, LAMBDA p :
                        /\ p.travelTime # <<>>
                        /\ TimeInMinutes(p, type) # -1
                        /\ TimeInMinutes(p, type) <= time)
                 ELSE physical
    IN  IF fields # {} THEN SelectSeq(timed, LAMBDA p : p.field \in fields) ELSE timed

\* the physical list built remote-first: location "remote" keeps the physical
\* records and "physical" drops them
PhysicalProfilesSwapped(ps, location, type, time, fields) ==
    LET physical == IF location = "physical" THEN <<>>
                    ELSE SelectSeq(ps, LAMBDA p : ~p.isRemote)
        timed == IF type # "all"
                 THEN SelectSeq(physical, LAMBDA p : WithinTravelTime(p, type, time))
                 ELSE physical
    IN  IF fields # {} THEN SelectSeq(timed, LAMBDA p : p.field \in fields) ELSE timed

\* the physical list with the newest record first
PhysicalProfilesReversed(ps, location, type, time, fields) ==
    LET physical == IF location = "remote" THEN <<>>
                    ELSE SelectSeq(ps, LAMBDA p : ~p.isRemote)
        timed == IF type # "all"
                 THEN SelectSeq(physical, LAMBDA p : WithinTravelTime(p, type, time))
                 ELSE physical
        kept == IF fields # {} THEN SelectSeq(timed, LAMBDA p : p.field \in fields)
                ELSE timed
    IN  [i \in 1..Len(kept) |-> kept[Len(kept) + 1 - i]]

\* lines 330-361: the value handed to setFilteredProfiles
PhysicalProfiles(ps, location, type, time, fields) ==
    LET physical == IF location = "remote" THEN <<>>
                    ELSE SelectSeq(ps, LAMBDA p : ~p.isRemote)
        timed == IF type # "all"
                 THEN SelectSeq(physical, LAMBDA p : WithinTravelTime(p, type, time))
                 ELSE physical
    IN  IF fields # {} THEN SelectSeq(timed, LAMBDA p : p.field \in fields) ELSE timed

\* the remote list emptied while a travel filter is active
RemoteProfilesListTravel(ps, location, fields) ==
    IF location = "physical" \/ filterType # "all" THEN <<>>
    ELSE SelectSeq(ps, LAMBDA p : p.isRemote /\ (fields = {} \/ p.field \in fields))

\* lines 329, 364-378: the value handed to setRemoteProfiles
RemoteProfilesList(ps, location, fields) ==
    LET allRemoteProfiles == IF location = "physical" THEN <<>>
                             ELSE SelectSeq(ps, LAMBDA p : p.isRemote)
    IN  IF fields # {} THEN SelectSeq(allRemoteProfiles, LAMBDA p : p.field \in fields)
        ELSE allRemoteProfiles

\* lines 380-381: the two state updates of the effect, for the settings given
ApplyFilter(location, type, time, fields) ==
    /\ filteredProfiles' = PhysicalProfiles(profiles', location, type, time, fields)
    /\ remoteProfiles' = RemoteProfilesList(profiles', location, fields)

\* the effect running because `profiles' changed
FilterEffect ==
    /\ UNCHANGED filterSettings
    /\ ApplyFilter(locationType, filterType, filterTime, selectedFields)

----------------------------------------------------------------------------
(* State machine *)

\* the subsequence of s at the indices of I, in order
RECURSIVE Pick(_, _, _)
Pick(s, I, i) ==
    IF i > Len(s) THEN <<>>
    ELSE (IF i \in I THEN <<s[i]>> ELSE <<>>) \o Pick(s, I, i + 1)

\* stored arrays a fresh install or an earlier release may have left
InitStores ==
    {Pick(Pool, I, 1) : I \in {J \in SUBSET DOMAIN Pool :
        Cardinality(J) <= MaxInit /\ UniqueIds(Pick(Pool, J, 1))}}

NoOp ==
    [op |-> "none", id |-> "", arg |-> BaseProfile, fault |-> "none", at |-> 0,
     beforeRaw |-> "absent", before |-> <<>>, ret |-> FALSE, val |-> <<>>,
     threw |-> FALSE, rows |-> <<>>, errors |-> <<>>]

Init ==
    /\ raw \in {"absent", "corrupt", "json"}
    /\ store \in (IF raw = "json" THEN InitStores ELSE {<<>>})
    /\ flags \in {{}, {migrationKey, ratingMigrationKey}}
                \cup (IF raw = "json" /\ store # <<>>
                      THEN {{migrationKey, ratingMigrationKey,
                             sampleDataMigrationKey, warholMigrationKey}}
                      ELSE {})
    /\ profiles = <<>>
    /\ loadedProfiles = <<>>
    /\ needs = {}
    /\ ran = {}
    /\ pc = "seed"
    /\ now = 200
    /\ boots = 0
    /\ ops = 0
    /\ created = 0
    /\ storeAtBoot = <<>>
    /\ bootEnds = [prev |-> <<>>, cur |-> <<>>, flags |-> {}, succ |-> FALSE,
                   kept |-> FALSE, removed |-> {}]
    /\ last = NoOp
    /\ locationType = "all"
    /\ filterType = "all"
    /\ filterTime = DefaultFilterTime
    /\ selectedFields = {}
    /\ filteredProfiles = <<>>
    /\ remoteProfiles = <<>>
    /\ UiInit

history == <<boots, ops, created, storeAtBoot, bootEnds, last>>

\* lines 50-53, 76, 160: the step each flag guards
FlagStep(k) ==
    CASE k = migrationKey -> "travel"
      [] k = ratingMigrationKey -> "rating"
      [] k = sampleDataMigrationKey -> "replace"
      [] k = warholMigrationKey -> "replace"
      [] k = remoteMigrationKey -> "remote"
      [] k = questionsMigrationKey -> "questions"

\* the steps of the mount effect as the spec lists them: anchor check before
\* the remote-subset backfill
NextStepListed(step) ==
    CASE step = "seed" -> "replace"
      [] step = "replace" -> "anchor"
      [] step = "anchor" -> "remote"
      [] step = "remote" -> "travel"
      [] step = "travel" -> "rating"
      [] step = "rating" -> "questions"
      [] step = "questions" -> "cleanup"
      [] step = "cleanup" -> "idle"

\* lines 56-307: the statement order of the mount effect; the step that
\* follows each step
NextStep(step) ==
    CASE step = "seed" -> "replace"
      [] step = "replace" -> "remote"
      [] step = "remote" -> "anchor"
      [] step = "anchor" -> "travel"
      [] step = "travel" -> "rating"
      [] step = "rating" -> "questions"
      [] step = "questions" -> "cleanup"
      [] step = "cleanup" -> "idle"

\* lines 46-59: flag reads, seed, load
BootSeed ==
    /\ pc = "seed"
    /\ LET r == InitializeWithSampleData(raw, store, sampleProfiles, "none") IN
        /\ needs' = {migrationKey, ratingMigrationKey, sampleDataMigrationKey,
                     warholMigrationKey} \ flags
        /\ storeAtBoot' = GetAllProfiles(raw, store, "none").val
        /\ bootEnds' = [bootEnds EXCEPT
                !.succ = /\ boots > 0 /\ raw = "json"
                         /\ store = bootEnds.cur /\ flags = bootEnds.flags,
                !.kept = /\ boots > 0 /\ raw = "json"
                         /\ store = bootEnds.cur /\ flags \subseteq bootEnds.flags,
                !.removed = bootEnds.flags \ flags]
        /\ raw' = r.raw
        /\ store' = r.store
        /\ loadedProfiles' = GetAllProfiles(r.raw, r.store, "none").val
    /\ ran' = {}
    /\ pc' = NextStep("seed")
    /\ UNCHANGED <<flags, profiles, now, boots, ops, created, last>>
    /\ UNCHANGED filterVars
    /\ UNCHANGED uiVars

\* lines 61-72: reference-set replacement
BootReplace ==
    /\ pc = "replace"
    /\ IF sampleDataMigrationKey \in needs \/ warholMigrationKey \in needs
       THEN /\ store' = ReplaceSamples(loadedProfiles)
            /\ raw' = "json"
            /\ loadedProfiles' = ReplaceSamples(loadedProfiles)
            /\ flags' = flags \cup {sampleDataMigrationKey, warholMigrationKey}
            /\ ran' = ran \cup {"replace"}
       ELSE UNCHANGED <<store, raw, loadedProfiles, flags, ran>>
    /\ pc' = NextStep("replace")
    /\ UNCHANGED <<profiles, needs, now, history>>
    /\ UNCHANGED filterVars
    /\ UNCHANGED uiVars

\* lines 74-86: remote-subset backfill
BootRemote ==
    /\ pc = "remote"
    /\ IF remoteMigrationKey \notin flags
       THEN LET new == NewRemoteProfiles(loadedProfiles)
                r == SaveEach(raw, store, new, now)
            IN  /\ ran' = ran \cup {"remote"}
                /\ IF Len(new) > 0
                   THEN /\ loadedProfiles' = loadedProfiles \o new
                        /\ raw' = r.raw
                        /\ store' = r.store
                        /\ flags' = flags \cup {remoteMigrationKey}
                   ELSE UNCHANGED <<loadedProfiles, raw, store, flags>>
       ELSE UNCHANGED <<loadedProfiles, raw, store, flags, ran>>
    /\ pc' = NextStep("remote")
    /\ UNCHANGED <<profiles, needs, now, history>>
    /\ UNCHANGED filterVars
    /\ UNCHANGED uiVars

\* lines 88-98: anchor-record presence check
BootAnchor ==
    /\ pc = "anchor"
    /\ LET k == FindIndex(sampleProfiles, LAMBDA p : p.id = "sample_9") IN
       IF ~HasWarhol(loadedProfiles) /\ k > 0
       THEN LET r == SaveProfile(raw, store, sampleProfiles[k], now, "none") IN
            /\ loadedProfiles' = Append(loadedProfiles, sampleProfiles[k])
            /\ raw' = r.raw
            /\ store' = r.store
            /\ ran' = ran \cup {"anchor"}
       ELSE UNCHANGED <<loadedProfiles, raw, store, ran>>
    /\ pc' = NextStep("anchor")
    /\ UNCHANGED <<flags, profiles, needs, now, history>>
    /\ UNCHANGED filterVars
    /\ UNCHANGED uiVars

\* lines 100-125: travel-time backfill
BootTravel ==
    /\ pc = "travel"
    /\ IF \/ migrationKey \in needs
          \/ \E i \in DOMAIN loadedProfiles : LacksTravelTime(loadedProfiles[i])
       THEN LET updatedProfiles ==
                    [i \in DOMAIN loadedProfiles |-> TravelUpdate(loadedProfiles[i])]
                saved == SelectSeq(updatedProfiles, TravelChanged)
                r == SaveEach(raw, store, saved, now)
            IN  /\ loadedProfiles' = updatedProfiles
                /\ raw' = r.raw
                /\ store' = r.store
                /\ flags' = flags \cup {migrationKey}
                /\ ran' = ran \cup {"travel"}
       ELSE UNCHANGED <<loadedProfiles, raw, store, flags, ran>>
    /\ pc' = NextStep("travel")
    /\ UNCHANGED <<profiles, needs, now, history>>
    /\ UNCHANGED filterVars
    /\ UNCHANGED uiVars

\* lines 127-156: rating backfill
BootRating ==
    /\ pc = "rating"
    /\ IF \/ ratingMigrationKey \in needs
          \/ \E i \in DOMAIN loadedProfiles : LacksRating(loadedProfiles[i])
       THEN LET updatedProfiles ==
                    [i \in DOMAIN loadedProfiles |-> RatingUpdate(loadedProfiles[i])]
                saved == [i \in 1..Len(SelectSeq(loadedProfiles, RatingChanged)) |->
                            RatingUpdate(SelectSeq(loadedProfiles, RatingChanged)[i])]
                r == SaveEach(raw, store, saved, now)
            IN  /\ loadedProfiles' = updatedProfiles
                /\ raw' = r.raw
                /\ store' = r.store
                /\ flags' = flags \cup {ratingMigrationKey}
                /\ ran' = ran \cup {"rating"}
       ELSE UNCHANGED <<loadedProfiles, raw, store, flags, ran>>
    /\ pc' = NextStep("rating")
    /\ UNCHANGED <<profiles, needs, now, history>>
    /\ UNCHANGED filterVars
    /\ UNCHANGED uiVars

\* lines 158-292: narrative answers and dates backfill
BootQuestions ==
    /\ pc = "questions"
    /\ IF \/ questionsMigrationKey \notin flags
          \/ \E i \in DOMAIN loadedProfiles : LacksQuestions(loadedProfiles[i])
       THEN LET updatedProfiles ==
                    [i \in DOMAIN loadedProfiles |-> QuestionsUpdate(loadedProfiles[i], now)]
                saved == [i \in 1..Len(SelectSeq(loadedProfiles, QuestionsChanged)) |->
                            QuestionsUpdate(SelectSeq(loadedProfiles, QuestionsChanged)[i], now)]
                r == SaveEach(raw, store, saved, now)
            IN  /\ loadedProfiles' = updatedProfiles
                /\ raw' = r.raw
                /\ store' = r.store
                /\ flags' = flags \cup {questionsMigrationKey}
                /\ ran' = ran \cup {"questions"}
       ELSE UNCHANGED <<loadedProfiles, raw, store, flags, ran>>
    /\ pc' = NextStep("questions")
    /\ UNCHANGED <<profiles, needs, now, history>>
    /\ UNCHANGED filterVars
    /\ UNCHANGED uiVars

\* lines 294-307: cleanup of test profiles, then setProfiles
BootCleanup ==
    /\ pc = "cleanup"
    /\ LET cleanedProfiles == SelectSeq(loadedProfiles, LAMBDA p : ~HasAsdf(p))
           r == DeleteEach(raw, store, SelectSeq(loadedProfiles, HasAsdf))
       IN  /\ profiles' = cleanedProfiles
           /\ loadedProfiles' = cleanedProfiles
           /\ raw' = r.raw
           /\ store' = r.store
           /\ bootEnds' = [bootEnds EXCEPT !.prev = bootEnds.cur, !.cur = r.store,
                                           !.flags = flags]
    /\ ran' = ran \cup {"cleanup"}
    /\ pc' = NextStep("cleanup")
    /\ boots' = boots + 1
    /\ last' = [NoOp EXCEPT !.op = "boot"]
    /\ UNCHANGED <<flags, needs, now, ops, created, storeAtBoot>>
    /\ FilterEffect
    /\ UNCHANGED uiVars

\* the user reloads the page: state is reset and the mount effect runs again
Reload ==
    /\ pc = "idle"
    /\ boots < MaxBoots
    /\ now' = now + 1
    /\ profiles' = <<>>
    /\ loadedProfiles' = <<>>
    /\ pc' = "seed"
    /\ last' = [NoOp EXCEPT !.op = "reload"]
    /\ UNCHANGED <<raw, store, flags, needs, ran, boots, ops, created, storeAtBoot,
                   bootEnds>>
    /\ FilterEffect
    /\ UNCHANGED uiVars

\* CSVUpload handleFileUpload followed by App handleCSVProfilesAdded
CSVImport ==
    /\ pc = "idle"
    /\ ops < MaxOps
    /\ \E lines \in CsvFiles :
        LET rows == ParseCSV(lines)
            r == ImportRows(rows, 1, raw, store, created, now) IN
        /\ created + Len(rows) <= Len(NewIds)
        /\ raw' = r.raw
        /\ store' = r.store
        /\ created' = created + Len(r.createdProfiles)
        /\ profiles' = IF Len(r.createdProfiles) = 0 THEN profiles
                       ELSE profiles \o r.createdProfiles
        /\ last' = [NoOp EXCEPT !.op = "csv", !.before = store, !.beforeRaw = raw,
                                !.val = r.createdProfiles,
                                !.rows = rows, !.errors = r.errors,
                                !.ret = Len(r.createdProfiles) > 0]
    /\ ops' = ops + 1
    /\ now' = now + 1
    /\ UNCHANGED <<flags, loadedProfiles, needs, ran, pc, boots, storeAtBoot, bootEnds>>
    /\ FilterEffect
    /\ UNCHANGED uiVars

\* AddProfileForm: handleSubmit calls onSubmit only with data that pass the
\* schema; onSubmit is followed by App handleProfileAdded
FormSubmit ==
    /\ pc = "idle"
    /\ ops < MaxOps
    /\ created < Len(NewIds)
    /\ \E in \in FormInputs :
        IF SchemaError(in) # "" \/ FormError(in) # ""
        THEN /\ last' = [NoOp EXCEPT !.op = "form", !.before = store, !.beforeRaw = raw]
             /\ UNCHANGED <<profiles, created>>
        ELSE LET newProfile == FormProfile(in, NewIds[created + 1], now) IN
             /\ profiles' = Append(profiles, newProfile)
             /\ created' = created + 1
             /\ last' = [NoOp EXCEPT !.op = "form", !.before = store, !.beforeRaw = raw,
                                     !.arg = newProfile, !.ret = TRUE]
    /\ ops' = ops + 1
    /\ now' = now + 1
    /\ UNCHANGED <<raw, store, flags, loadedProfiles, needs, ran, pc, boots,
                   storeAtBoot, bootEnds>>
    /\ FilterEffect
    /\ UNCHANGED uiVars

\* a migration flag is removed from localStorage (site data partly cleared)
RemoveFlag ==
    /\ pc = "idle"
    /\ ops < MaxOps
    /\ \E k \in flags :
        /\ flags' = flags \ {k}
        /\ last' = [NoOp EXCEPT !.op = "removeFlag", !.id = k]
    /\ ops' = ops + 1
    /\ now' = now + 1
    /\ UNCHANGED <<raw, store, profiles, loadedProfiles, needs, ran, pc, boots,
                   created, storeAtBoot, bootEnds>>
    /\ UNCHANGED filterVars
    /\ UNCHANGED uiVars

(* Direct calls of the store's exported functions, outside the mount effect *)

\* a write may fail: localStorage.setItem throws QuotaExceededError
Faults == {"none", "quota"}

SaveArgs ==
    { [BaseProfile EXCEPT !.rating = 2, !.updatedAt = 7],
      [Sample1 EXCEPT !.ratingComment = "Edited", !.updatedAt = 7] }

DeleteArgs == {"sample_1", "profile_99"}

CallFrame ==
    /\ pc = "idle"
    /\ ops < MaxOps
    /\ ops' = ops + 1
    /\ now' = now + 1
    /\ UNCHANGED <<flags, profiles, loadedProfiles, needs, ran, pc, boots, created,
                   storeAtBoot, bootEnds>>
    /\ UNCHANGED filterVars
    /\ UNCHANGED uiVars

\* the stored value is overwritten with text that is not JSON
CorruptStorage ==
    /\ CallFrame
    /\ raw' = "corrupt"
    /\ store' = <<>>
    /\ last' = [NoOp EXCEPT !.op = "corrupt", !.before = store, !.beforeRaw = raw]

CallGetAll ==
    /\ CallFrame
    /\ \E fault \in {"none", "unavailable"} :
        LET r == GetAllProfiles(raw, store, fault) IN
        /\ last' = [NoOp EXCEPT !.op = "getAll", !.fault = fault, !.before = store,
                                !.beforeRaw = raw, !.val = r.val, !.threw = r.threw]
    /\ UNCHANGED <<raw, store>>

CallSave ==
    /\ CallFrame
    /\ \E profile \in SaveArgs, fault \in Faults :
        LET r == SaveProfile(raw, store, profile, now, fault) IN
        /\ raw' = r.raw
        /\ store' = r.store
        /\ last' = [NoOp EXCEPT !.op = "save", !.arg = profile, !.fault = fault, !.at = now,
                                !.before = store, !.beforeRaw = raw, !.ret = r.ret,
                                !.threw = r.threw]

CallDelete ==
    /\ CallFrame
    /\ \E id \in DeleteArgs, fault \in Faults :
        LET r == DeleteProfile(raw, store, id, fault) IN
        /\ raw' = r.raw
        /\ store' = r.store
        /\ last' = [NoOp EXCEPT !.op = "delete", !.id = id, !.fault = fault,
                                !.before = store, !.beforeRaw = raw, !.ret = r.ret,
                                !.threw = r.threw]

CallSeed ==
    /\ CallFrame
    /\ \E fault \in Faults :
        LET r == InitializeWithSampleData(raw, store, sampleProfiles, fault) IN
        /\ raw' = r.raw
        /\ store' = r.store
        /\ last' = [NoOp EXCEPT !.op = "seed", !.fault = fault, !.before = store,
                                !.beforeRaw = raw, !.threw = r.threw]

CallClear ==
    /\ CallFrame
    /\ LET r == ClearAllProfiles(raw, store, "none") IN
        /\ raw' = r.raw
        /\ store' = r.store
        /\ last' = [NoOp EXCEPT !.op = "clear", !.before = store, !.beforeRaw = raw,
                                !.threw = r.threw]

Next ==
    \/ BootSeed
    \/ BootReplace
    \/ BootRemote
    \/ BootAnchor
    \/ BootTravel
    \/ BootRating
    \/ BootQuestions
    \/ BootCleanup
    \/ Reload
    \/ CSVImport
    \/ FormSubmit
    \/ RemoveFlag
    \/ CallGetAll
    \/ CallSave
    \/ CallDelete
    \/ CallSeed
    \/ CallClear
    \/ CorruptStorage

Spec == Init /\ [][Next]_vars

----------------------------------------------------------------------------
(* The filter controls: FilterPanel.tsx callbacks setting App state, each
   followed by the filter effect *)

\* a physical profile imported with a driving time only
DrivingOnly ==
    [BaseProfile EXCEPT !.id = "profile_15", !.firstName = "Ira",
        !.field = "robotics", !.travelTime = <<30, -1, -1>>]

\* in-memory records the filter may be given
FilterPool == <<Sample1, Sample20, Sample9, UserRemote, BaseProfile, UserLegacy, DrivingOnly>>

FilterInputs ==
    {Pick(FilterPool, I, 1) : I \in {J \in SUBSET DOMAIN FilterPool :
        Cardinality(J) <= MaxShown}}

\* FilterPanel.tsx lines 298-302: values of the minutes slider (5 to 60, step 5)
FilterTimes == {15, 25, 45}

\* field tags offered by the field filter
FieldChoices == {"library science", "consulting"}

\* the application after a boot, showing one of the input arrays
FilterInit ==
    /\ profiles \in FilterInputs
    /\ raw = "json"
    /\ store = profiles
    /\ flags = FlagKeys
    /\ loadedProfiles = profiles
    /\ needs = {}
    /\ ran = {}
    /\ pc = "idle"
    /\ now = 200
    /\ boots = 1
    /\ ops = 0
    /\ created = 0
    /\ storeAtBoot = <<>>
    /\ bootEnds = [prev |-> <<>>, cur |-> <<>>, flags |-> {}, succ |-> FALSE,
                   kept |-> FALSE, removed |-> {}]
    /\ last = NoOp
    /\ locationType = "all"
    /\ filterType = "all"
    /\ filterTime = DefaultFilterTime
    /\ selectedFields = {}
    /\ filteredProfiles = PhysicalProfiles(profiles, "all", "all", DefaultFilterTime, {})
    /\ remoteProfiles = RemoteProfilesList(profiles, "all", {})
    /\ UiInit

appVars == <<raw, store, flags, profiles, loadedProfiles, needs, ran, pc, now,
             boots, ops, created, storeAtBoot, bootEnds, uiVars>>

SetLocationType ==
    /\ UNCHANGED <<appVars, filterType, filterTime, selectedFields>>
    /\ last' = [NoOp EXCEPT !.op = "setLocationType"]
    /\ \E v \in {"all", "physical", "remote"} :
        /\ locationType' = v
        /\ ApplyFilter(v, filterType, filterTime, selectedFields)

SetFilterType ==
    /\ UNCHANGED <<appVars, locationType, filterTime, selectedFields>>
    /\ last' = [NoOp EXCEPT !.op = "setFilterType"]
    /\ \E v \in {"all", "driving", "walking", "bus"} :
        /\ filterType' = v
        /\ ApplyFilter(locationType, v, filterTime, selectedFields)

SetFilterTime ==
    /\ UNCHANGED <<appVars, locationType, filterType, selectedFields>>
    /\ last' = [NoOp EXCEPT !.op = "setFilterTime"]
    /\ \E v \in FilterTimes :
        /\ filterTime' = v
        /\ ApplyFilter(locationType, filterType, v, selectedFields)

\* FilterPanel.tsx lines 44-50: toggle one field tag
ToggleField ==
    /\ UNCHANGED <<appVars, locationType, filterType, filterTime>>
    /\ last' = [NoOp EXCEPT !.op = "toggleField"]
    /\ \E field \in FieldChoices :
        LET fields == IF field \in selectedFields THEN selectedFields \ {field}
                      ELSE selectedFields \cup {field} IN
        /\ selectedFields' = fields
        /\ ApplyFilter(locationType, filterType, filterTime, fields)

\* FilterPanel.tsx lines 57-61: clear all resets the fields, the travel filter
\* and the location filter; the field array is a new, possibly equal, array, so
\* the effect runs again even when nothing changed
handleClearAll ==
    /\ UNCHANGED <<appVars, filterTime>>
    /\ last' = [NoOp EXCEPT !.op = "handleClearAll",
                            !.id = IF <<locationType, filterType, selectedFields>> = <<"all", "all", {}>>
                                   THEN "same" ELSE "changed"]
    /\ selectedFields' = {}
    /\ filterType' = "all"
    /\ locationType' = "all"
    /\ ApplyFilter("all", "all", filterTime, {})

FilterNext ==
    \/ SetLocationType
    \/ SetFilterType
    \/ SetFilterTime
    \/ ToggleField
    \/ handleClearAll

FilterSpec == FilterInit /\ [][FilterNext]_vars

----------------------------------------------------------------------------
(* Properties *)

\* the stored array a store call found (getAllProfiles of the state before it)
Before == IF last.beforeRaw = "json" THEN last.before ELSE <<>>

\* the set of records of an array
Records(s) == {s[i] : i \in DOMAIN s}

\* C1: two boots in succession on the same store and flags (only the clock
\* advancing) leave the stored array after the second boot identical, field
\* for field, to the array after the first.
C1_MigrationIdempotent ==
    (pc = "idle" /\ last.op = "boot" /\ bootEnds.succ) => bootEnds.cur = bootEnds.prev

\* C2: in every reachable state no two records of the stored array share an id.
C2_UniqueIds == UniqueIds(store)

C2_Witness ==
    /\ pc = "idle" /\ last.op = "csv" /\ Len(last.val) >= 2
    /\ Len(store) >= 6
    /\ \E i \in DOMAIN store : ~StartsWithSample(store[i].id)

\* C3: every record stored before boot whose id lacks the reference prefix and
\* whose names lack the test marker is, after migration, in the store and in
\* the in-memory array exactly once.
C3_UserRecordsKept ==
    (pc = "idle" /\ last.op = "boot") =>
        \A i \in DOMAIN storeAtBoot :
            (~StartsWithSample(storeAtBoot[i].id) /\ ~HasAsdf(storeAtBoot[i])) =>
                /\ Count(store, storeAtBoot[i].id) = 1
                /\ Count(profiles, storeAtBoot[i].id) = 1

C3_Witness ==
    /\ pc = "idle" /\ last.op = "boot" /\ "replace" \in ran
    /\ \E i, j \in DOMAIN storeAtBoot :
        /\ ~StartsWithSample(storeAtBoot[i].id) /\ ~HasAsdf(storeAtBoot[i])
        /\ HasAsdf(storeAtBoot[j])

\* C4: after boot-time migration, an add-profile form submission or a CSV
\* import completes, the in-memory array and the stored array hold the same
\* records, field for field.
C4_MemoryMatchesStore ==
    (pc = "idle" /\ last.op \in {"boot", "form", "csv"}) =>
        Records(profiles) = Records(store)

\* C5: save is an upsert by id: an existing record is replaced in place by the
\* given profile with updatedAt set to the instant of the call, length and
\* other records unchanged; an absent id is appended with the profile unchanged.
C5_SaveUpserts ==
    (last.op = "save" /\ last.fault = "none") =>
        /\ last.ret
        /\ raw = "json"
        /\ IF \E i \in DOMAIN Before : Before[i].id = last.arg.id
           THEN /\ Len(store) = Len(Before)
                /\ \A i \in DOMAIN Before :
                    IF Before[i].id = last.arg.id
                    THEN store[i] = [last.arg EXCEPT !.updatedAt = last.at]
                    ELSE store[i] = Before[i]
           ELSE store = Append(Before, last.arg)

C5_Witness ==
    /\ last.op = "save" /\ last.fault = "none"
    /\ Len(Before) >= 2
    /\ \E i \in DOMAIN Before : Before[i].id = last.arg.id
    /\ last.arg.updatedAt # last.at

\* C6: no store call raises; getAll on absent, unreadable or malformed storage
\* returns the empty sequence; save and deleteById whose write fails return
\* false and leave the stored value as it was.
C6_StoreNeverThrows ==
    /\ ~last.threw
    /\ (last.op = "getAll" /\ (last.beforeRaw # "json" \/ last.fault = "unavailable"))
            => last.val = <<>>
    /\ (last.op \in {"save", "delete"} /\ last.fault # "none")
            => (~last.ret /\ store = last.before /\ raw = last.beforeRaw)

C6_Witness ==
    /\ last.op = "save" /\ last.fault = "quota"
    /\ last.beforeRaw = "json" /\ Len(last.before) >= 2

\* C7: deleteById removes every stored record with the id, keeps the others
\* unchanged in order and returns true, also when no record had the id.
C7_DeleteRemovesById ==
    (last.op = "delete" /\ last.fault = "none") =>
        /\ last.ret
        /\ raw = "json"
        /\ \A i \in DOMAIN store : store[i].id # last.id
        /\ Len(store) = Len(Before) - Count(Before, last.id)
        /\ store = SelectSeq(Before, LAMBDA p : p.id # last.id)

C7_Witness ==
    /\ last.op = "delete" /\ last.fault = "none"
    /\ Count(Before, last.id) = 1 /\ Len(Before) >= 3
    /\ Before[1].id # last.id

\* C8: seedIfEmpty on an empty store writes the reference set verbatim, in
\* order; on a non-empty store it adds and removes no record.  Checked for a
\* direct call and for the seed step of the boot.
SeedWritesOrKeeps(before, after) ==
    IF before = <<>>
    THEN after = sampleProfiles
    ELSE /\ Len(after) = Len(before)
         /\ \A i \in DOMAIN before : after[i].id = before[i].id

C8_SeedIfEmpty ==
    /\ (last.op = "seed" /\ last.fault = "none") =>
            (raw = "json" /\ SeedWritesOrKeeps(Before, store))
    /\ pc = "replace" => (raw = "json" /\ SeedWritesOrKeeps(storeAtBoot, store))

C8_Witness ==
    /\ pc = "replace" /\ boots = 0
    /\ storeAtBoot = <<>> /\ raw = "json" /\ store = sampleProfiles

\* C9: seedIfEmpty on a non-empty store copies, for every stored record that
\* matches a reference record (by id, else by company name and coordinates
\* within the tolerance), each of travel-time, rating and rating comment that
\* is missing from the reference record, and changes no present value.
SeedReconciled(before, after) ==
    /\ Len(after) = Len(before)
    /\ \A i \in DOMAIN before :
        LET p == before[i]
            k == SampleMatch(p)
        IN  k > 0 =>
            /\ after[i].travelTime =
                  IF p.travelTime = <<>> THEN sampleProfiles[k].travelTime
                  ELSE p.travelTime
            /\ after[i].rating = OrNum(p.rating, sampleProfiles[k].rating)
            /\ after[i].ratingComment =
                  OrStr(p.ratingComment, sampleProfiles[k].ratingComment)

C9_SeedBackfills ==
    /\ (last.op = "seed" /\ last.fault = "none" /\ Before # <<>>) =>
            SeedReconciled(Before, store)
    /\ (pc = "replace" /\ storeAtBoot # <<>>) => SeedReconciled(storeAtBoot, store)

\* C10: after the reference-set replacement step has run, the working array
\* and the store are the user records followed by exactly the current
\* Reference Dataset, verbatim, and both of the step's flags are set.
C10_ReplacementTotal ==
    (pc = "remote" /\ "replace" \in ran) =>
        /\ raw = "json"
        /\ loadedProfiles = store
        /\ Len(store) >= Len(sampleProfiles)
        /\ SubSeq(store, Len(store) - Len(sampleProfiles) + 1, Len(store)) = sampleProfiles
        /\ \A i \in 1..(Len(store) - Len(sampleProfiles)) : ~StartsWithSample(store[i].id)
        /\ {sampleDataMigrationKey, warholMigrationKey} \subseteq flags

C10_Witness ==
    /\ pc = "remote" /\ "replace" \in ran
    /\ \E i, j \in DOMAIN storeAtBoot :
        /\ storeAtBoot[i].id = "sample_0"
        /\ ~StartsWithSample(storeAtBoot[j].id)
    /\ Len(store) = Len(sampleProfiles) + 1

\* C11: no backfill step (travel-time, rating and comment, narrative answers
\* and dates) changes a field it handles on a record that already has a
\* non-empty value for it, whether or not the record matches a reference record.
C11_BackfillKeepsValues ==
    [][(pc \in {"travel", "rating", "questions"}) =>
        /\ Len(loadedProfiles') = Len(loadedProfiles)
        /\ \A i \in DOMAIN loadedProfiles :
            LET p == loadedProfiles[i]
                q == loadedProfiles'[i]
            IN  /\ pc = "travel" =>
                    (p.travelTime # <<>> => q.travelTime = p.travelTime)
                /\ pc = "rating" =>
                    /\ p.rating # 0 => q.rating = p.rating
                    /\ p.ratingComment # "" => q.ratingComment = p.ratingComment
                /\ pc = "questions" =>
                    /\ p.question1_whatMadeUnique # "" =>
                            q.question1_whatMadeUnique = p.question1_whatMadeUnique
                    /\ p.question2_meaningfulContribution # "" =>
                            q.question2_meaningfulContribution = p.question2_meaningfulContribution
                    /\ p.question3_skillsLearned # "" =>
                            q.question3_skillsLearned = p.question3_skillsLearned
                    /\ p.question4_mostSurprising # "" =>
                            q.question4_mostSurprising = p.question4_mostSurprising
                    /\ p.question5_specificMoment # "" =>
                            q.question5_specificMoment = p.question5_specificMoment
                    /\ p.question6_futureGoals # "" =>
                            q.question6_futureGoals = p.question6_futureGoals
                    /\ p.startDate # 0 => q.startDate = p.startDate
                    /\ p.endDate # 0 => q.endDate = p.endDate]_vars

\* C12: when the store holds exactly one record, a reference record that lacks
\* only its rating (and rating comment), and the Reference Dataset has the same
\* id with rating 4 and comment "Great", then after the boot the stored record
\* has rating 4 and comment "Great" and every other field as before the boot.
C12_RatingScenario ==
    (/\ pc = "idle" /\ last.op = "boot"
     /\ Len(storeAtBoot) = 1
     /\ StartsWithSample(storeAtBoot[1].id)
     /\ storeAtBoot[1].rating = 0 /\ storeAtBoot[1].ratingComment = ""
     /\ storeAtBoot[1].travelTime # <<>> /\ ~LacksQuestions(storeAtBoot[1])
     /\ \E k \in DOMAIN sampleProfiles :
            /\ sampleProfiles[k].id = storeAtBoot[1].id
            /\ sampleProfiles[k].rating = 4
            /\ sampleProfiles[k].ratingComment = "Great")
    => \E i \in DOMAIN store :
            store[i] = [storeAtBoot[1] EXCEPT !.rating = 4, !.ratingComment = "Great"]

\* C13: when the boot completes, no record whose first or last name contains
\* "asdf" in any letter case is in the in-memory array or in the store, and
\* every record without the marker that was in the working array before the
\* cleanup is still in memory and still, unchanged, in the store.
C13_CleanupRemovesMarked ==
    [][(pc = "cleanup") =>
        /\ pc' = "idle"
        /\ \A i \in DOMAIN profiles' :
            ~(IncludesAsdf(profiles'[i].firstName) \/ IncludesAsdf(profiles'[i].lastName))
        /\ \A i \in DOMAIN store' :
            ~(IncludesAsdf(store'[i].firstName) \/ IncludesAsdf(store'[i].lastName))
        /\ \A i \in DOMAIN loadedProfiles :
            LET p == loadedProfiles[i] IN
            ~(IncludesAsdf(p.firstName) \/ IncludesAsdf(p.lastName)) =>
                /\ p \in Records(profiles')
                /\ \E j \in DOMAIN store' : store'[j].id = p.id
                /\ {r \in Records(store') : r.id = p.id} =
                   {r \in Records(store) : r.id = p.id}]_vars

C13_Witness ==
    /\ pc = "idle" /\ last.op = "boot"
    /\ \E i, j \in DOMAIN storeAtBoot :
        /\ storeAtBoot[i].lastName = "ASDF test"
        /\ ~HasAsdf(storeAtBoot[j]) /\ ~StartsWithSample(storeAtBoot[j].id)
        /\ storeAtBoot[j].id \in Ids(store) /\ storeAtBoot[j].id \in Ids(profiles)
    /\ Len(store) < Len(storeAtBoot) + Len(sampleProfiles)

\* a stored or working array without its updatedAt stamps
StripUpdatedAt(s) == [i \in DOMAIN s |-> [s[i] EXCEPT !.updatedAt = 0]]

\* C14 as stated: the boot runs seed, reference-set replacement, anchor check,
\* remote-subset backfill, travel-time, rating, narrative/date backfill and
\* cleanup in that order.
C14_ListedOrder ==
    [][/\ pc = "seed" => pc' = "replace"
       /\ pc = "replace" => pc' = "anchor"
       /\ pc = "anchor" => pc' = "remote"
       /\ pc = "remote" => pc' = "travel"
       /\ pc = "travel" => pc' = "rating"
       /\ pc = "rating" => pc' = "questions"
       /\ pc = "questions" => pc' = "cleanup"
       /\ pc = "cleanup" => pc' = "idle"]_vars

\* C14 amended: the boot runs seed, reference-set replacement, remote-subset
\* backfill, anchor check, travel-time, rating, narrative/date backfill and
\* cleanup in that order, and when a step ends the store holds the working
\* array the step produced (updatedAt stamps aside), before the next begins.
C14_CodeOrder ==
    [][/\ pc = "seed" => pc' = "replace"
       /\ pc = "replace" => pc' = "remote"
       /\ pc = "remote" => pc' = "anchor"
       /\ pc = "anchor" => pc' = "travel"
       /\ pc = "travel" => pc' = "rating"
       /\ pc = "rating" => pc' = "questions"
       /\ pc = "questions" => pc' = "cleanup"
       /\ pc = "cleanup" => pc' = "idle"
       /\ (pc # "idle") =>
            StripUpdatedAt(store') = StripUpdatedAt(loadedProfiles')]_vars

C14_Witness ==
    /\ pc = "idle" /\ last.op = "boot"
    /\ {"remote", "anchor"} \subseteq ran
    /\ Len(store) = Len(storeAtBoot) + 2
    /\ store[Len(store) - 1].id = "sample_20"
    /\ store[Len(store)].id = "sample_9"

\* the ids of an array with and without the reference prefix
SampleIds(s) == {id \in Ids(s) : StartsWithSample(id)}
UserIds(s) == {id \in Ids(s) : ~StartsWithSample(id)}

\* a boot has completed that started from the store the previous boot left,
\* with one or more of the flags the previous boot left removed
AfterFlagRemoval ==
    /\ pc = "idle" /\ last.op = "boot"
    /\ bootEnds.kept /\ bootEnds.removed # {}

\* C15 as stated: after a completed migration and the removal of a flag, the
\* next boot re-runs the step the flag guards and ends with the same set of
\* stored ids as before the removal, no id twice and no user record lost.
C15_FlagRemovalKeepsIds ==
    AfterFlagRemoval =>
        /\ \A k \in bootEnds.removed : FlagStep(k) \in ran
        /\ Ids(store) = Ids(bootEnds.prev)
        /\ UniqueIds(store)

\* C15 amended: ... the next boot re-runs the step the flag guards and ends
\* with no id twice and with the same user-submitted ids; the reference ids
\* are those of the Reference Dataset when the replacement step re-ran;
\* otherwise the ids are the same as before the removal, with the anchor's id
\* added when the store held no anchor record.
C15_FlagRemovalRerun ==
    AfterFlagRemoval =>
        /\ \A k \in bootEnds.removed : FlagStep(k) \in ran
        /\ UniqueIds(store)
        /\ UserIds(store) = UserIds(bootEnds.prev)
        /\ IF "replace" \in ran
           THEN SampleIds(store) = Ids(sampleProfiles)
           ELSE Ids(store) = Ids(bootEnds.prev)
                    \cup (IF HasWarhol(bootEnds.prev) THEN {} ELSE {"sample_9"})

C15_Witness ==
    /\ AfterFlagRemoval
    /\ sampleDataMigrationKey \in bootEnds.removed
    /\ UserIds(store) # {}
    /\ SampleIds(bootEnds.prev) # Ids(sampleProfiles)

\* C16: with locationType physical, filterType all and no selected field the
\* map-eligible list is exactly the non-remote profiles in input order and the
\* list-eligible list is empty; with locationType remote, for any travel
\* filter, the map-eligible list is empty and the list-eligible list is exactly
\* the remote profiles whose field is selected (all of them when none is).
C16_LocationFilter ==
    /\ (locationType = "physical" /\ filterType = "all" /\ selectedFields = {}) =>
            /\ filteredProfiles = SelectSeq(profiles, LAMBDA p : ~p.isRemote)
            /\ remoteProfiles = <<>>
    /\ (locationType = "remote") =>
            /\ filteredProfiles = <<>>
            /\ remoteProfiles = SelectSeq(profiles, LAMBDA p :
                    p.isRemote /\ (selectedFields = {} \/ p.field \in selectedFields))

C16_Witness ==
    /\ locationType = "remote" /\ filterType = "driving"
    /\ selectedFields = {"consulting"}
    /\ Len(remoteProfiles) = 1
    /\ \E i, j \in DOMAIN profiles :
        /\ profiles[i].isRemote /\ profiles[i].field = "library science"
        /\ ~profiles[j].isRemote /\ profiles[j].travelTime # <<>>
        /\ profiles[j].travelTime[1] > 0 /\ profiles[j].travelTime[1] <= filterTime

\* the travel time of a record for the selected mode; 0 stands for absent here
ModeTime(p) ==
    IF p.travelTime = <<>> THEN 0
    ELSE LET t == CASE filterType = "driving" -> p.travelTime[1]
                    [] filterType = "walking" -> p.travelTime[2]
                    [] OTHER -> p.travelTime[3]
         IN  IF t = -1 THEN 0 ELSE t

\* C17: with filterType driving, walking or bus, every map-eligible record has
\* a travel time for that mode that is present, greater than 0 and at most
\* filterTime, and every physical record with such a travel time (that the
\* location and field filters let through) is map-eligible: a value equal to
\* filterTime is included, a value of 0 or an absent value is excluded.
C17_TravelTimeFilter ==
    (filterType # "all") =>
        /\ \A i \in DOMAIN filteredProfiles :
            /\ ~filteredProfiles[i].isRemote
            /\ ModeTime(filteredProfiles[i]) > 0
            /\ ModeTime(filteredProfiles[i]) <= filterTime
        /\ \A i \in DOMAIN profiles :
            (/\ ~profiles[i].isRemote
             /\ locationType # "remote"
             /\ (selectedFields = {} \/ profiles[i].field \in selectedFields)
             /\ ModeTime(profiles[i]) > 0
             /\ ModeTime(profiles[i]) <= filterTime)
            => profiles[i] \in Records(filteredProfiles)

C17_Witness ==
    /\ filterType = "bus" /\ locationType = "all" /\ selectedFields = {}
    /\ \E i \in DOMAIN filteredProfiles : filteredProfiles[i].travelTime[3] = filterTime
    /\ \E i \in DOMAIN profiles :
        /\ ~profiles[i].isRemote /\ profiles[i].travelTime # <<>>
        /\ profiles[i].travelTime[3] = 0
        /\ profiles[i] \notin Records(filteredProfiles)
    /\ \E i \in DOMAIN profiles :
        /\ ~profiles[i].isRemote
        /\ (profiles[i].travelTime = <<>> \/ profiles[i].travelTime[3] = -1)
        /\ profiles[i] \notin Records(filteredProfiles)

\* a is b with some elements left out, the rest in b's order
RECURSIVE IsSubseq(_, _)
IsSubseq(a, b) ==
    IF a = <<>> THEN TRUE
    ELSE IF b = <<>> THEN FALSE
    ELSE IF Head(a) = Head(b) THEN IsSubseq(Tail(a), Tail(b))
    ELSE IsSubseq(a, Tail(b))

\* C18: when the filter effect runs again with profiles and settings unchanged
\* it yields the same two lists, and each list is always a subsequence of the
\* profile array in the array's order.
C18_FilterDeterministic ==
    [][/\ (profiles' = profiles /\ filterSettings' = filterSettings) =>
            /\ filteredProfiles' = filteredProfiles
            /\ remoteProfiles' = remoteProfiles
       /\ IsSubseq(filteredProfiles', profiles')
       /\ IsSubseq(remoteProfiles', profiles')]_vars

C18_Witness ==
    /\ last.op = "handleClearAll" /\ last.id = "same"
    /\ Len(filteredProfiles) = 2 /\ Len(profiles) = 3
    /\ profiles[2].isRemote
    /\ remoteProfiles = <<profiles[2]>>

\* a row that passes every validation rule: the row checks of the import and the
\* rules on the email format and the order of the dates
RowPassesValidation(row) ==
    /\ RowError(row) = ""
    /\ IsEmail(row.email) /\ IsEmail(row.internshipSiteEmail)
    /\ row.endDate >= row.startDate

PassesValidation(p) ==
    /\ p.firstName # "" /\ p.lastName # "" /\ p.internshipCompany # ""
    /\ p.field # "" /\ p.internshipContactName # ""
    /\ IsEmail(p.email) /\ IsEmail(p.internshipSiteEmail)
    /\ p.startDate # 0 /\ p.endDate # 0 /\ p.endDate >= p.startDate
    /\ p.rating # 0 /\ p.ratingComment # ""
    /\ p.question1_whatMadeUnique # "" /\ p.question2_meaningfulContribution # ""
    /\ p.question3_skillsLearned # ""
    /\ (~p.isRemote => p.internshipAddress # "")

C23_RemoteBackfillSetsFlag ==
    [][(pc = "remote" /\ pc' # "remote" /\ remoteMigrationKey \notin flags) =>
        /\ \A i \in DOMAIN sampleProfiles :
            sampleProfiles[i].isRemote =>
                /\ Count(loadedProfiles', sampleProfiles[i].id) = 1
                /\ Count(store', sampleProfiles[i].id) = 1
        /\ remoteMigrationKey \in flags']_vars

\* address and coordinates are both present on a physical record and both
\* absent on a remote record
Exclusive(p) ==
    IF p.isRemote THEN p.internshipAddress = "" /\ p.coordinates = <<>>
    ELSE p.internshipAddress # "" /\ p.coordinates # <<>>

\* C22: every record created by the add-profile form or by CSV import, and
\* every record of the store and of the working array during and after
\* migration of a store that satisfied it, has address and coordinates both
\* present when isRemote is false and both absent when isRemote is true.
C22_AddressExclusive ==
    \A p \in Records(store) \cup Records(loadedProfiles) \cup Records(profiles) :
        Exclusive(p)

C22_Witness ==
    /\ pc = "idle" /\ last.op \in {"csv", "form"} /\ last.ret
    /\ \E p \in Records(profiles) :
        /\ p.id \in {NewIds[i] : i \in DOMAIN NewIds}
        /\ ~p.isRemote /\ p.coordinates # <<>>
    /\ \E p \in Records(store) : p.id \notin {NewIds[i] : i \in DOMAIN NewIds}

\* some record is identified as the anchor, by company name or by id
AnchorIn(s) ==
    \E i \in DOMAIN s :
        s[i].internshipCompany = "Andy Warhol Museum" \/ s[i].id = "sample_9"

HasQuestionsAndDates(p) ==
    /\ p.question1_whatMadeUnique # "" /\ p.question2_meaningfulContribution # ""
    /\ p.question3_skillsLearned # "" /\ p.startDate # 0 /\ p.endDate # 0

\* q is p with values filled in for missing narrative answers and dates only
FilledFrom(p, q) ==
    /\ q.startDate = IF p.startDate # 0 THEN p.startDate ELSE q.startDate
    /\ q.endDate = IF p.endDate # 0 THEN p.endDate ELSE q.endDate
    /\ \A f \in {"question1_whatMadeUnique", "question2_meaningfulContribution",
                 "question3_skillsLearned", "question4_mostSurprising",
                 "question5_specificMoment", "question6_futureGoals"} :
        q[f] # "" /\ (p[f] # "" => q[f] = p[f])
    /\ \A f \in DOMAIN p \ {"startDate", "endDate", "question1_whatMadeUnique",
                            "question2_meaningfulContribution", "question3_skillsLearned",
                            "question4_mostSurprising", "question5_specificMoment",
                            "question6_futureGoals"} : q[f] = p[f]

\* C25: after the narrative and date backfill step every record of the working
\* array has all three required narrative answers, a start date and an end
\* date, matched to a reference record or not; a record without a match that
\* lacked some of them gets placeholder values for its missing fields and keeps
\* every value it had.
C25_QuestionsFilled ==
    [][(pc = "questions" /\ pc' # "questions") =>
        /\ Len(loadedProfiles') = Len(loadedProfiles)
        /\ \A i \in DOMAIN loadedProfiles :
            /\ HasQuestionsAndDates(loadedProfiles'[i])
            /\ (SampleMatch(loadedProfiles[i]) = 0 /\ ~HasQuestionsAndDates(loadedProfiles[i]))
                => FilledFrom(loadedProfiles[i], loadedProfiles'[i])
            /\ HasQuestionsAndDates(loadedProfiles[i])
                => loadedProfiles'[i] = loadedProfiles[i]]_vars

C25_Witness ==
    /\ pc = "cleanup" /\ "questions" \in ran
    /\ \E p \in Records(loadedProfiles) :
        /\ p.id = "sample_0" /\ p.question1_whatMadeUnique = "dummy-q1-generic"
        /\ p.question4_mostSurprising = "s1-q4"
    /\ \E p \in Records(loadedProfiles) : p.id = "profile_4" /\ p.question1_whatMadeUnique = "s1-q1"

\* C26: after the narrative and date backfill step every record of the working
\* array and of the store has endDate >= startDate, also a record that entered
\* the step with one of the two dates and had the other filled in.
C26_DatesOrdered ==
    [][(pc = "questions" /\ pc' # "questions") =>
        \A p \in Records(loadedProfiles') \cup Records(store') :
            p.endDate >= p.startDate]_vars

\* the reference record the seed reconciliation selects for a stored record:
\* its index, 0 for none, -1 when the selection throws
SeedSelects(p) ==
    IF IsSampleProfile(p, sampleProfiles) THEN SeedFind(p, sampleProfiles, 1) ELSE 0

\* C27: for every stored record the seed reconciliation selects the same
\* reference record as the three backfill steps: the one with the same id,
\* otherwise the first with an identical company name and coordinates within
\* the tolerance on both axes (both coordinates existing), otherwise none.
C27_SameMatch ==
    (pc = "seed" /\ raw = "json") =>
        \A p \in Records(store) : SeedSelects(p) = SampleMatch(p)

\* C28: the list-eligible (remote) list does not depend on the travel filter: a
\* step that changes filterType or filterTime and leaves the profile array,
\* locationType and selectedFields as they were leaves the list as it was; and
\* the list is empty whenever locationType is physical.
C28_RemoteIgnoresTravel ==
    [][/\ (/\ profiles' = profiles /\ locationType' = locationType
           /\ selectedFields' = selectedFields)
            => remoteProfiles' = remoteProfiles
       /\ (locationType' = "physical") => remoteProfiles' = <<>>]_vars

C28_Witness ==
    /\ last.op = "setFilterTime" /\ filterType = "driving" /\ filterTime = 15
    /\ locationType = "all"
    /\ Len(remoteProfiles) >= 1
    /\ \E i \in DOMAIN profiles :
        ~profiles[i].isRemote /\ profiles[i] \notin Records(filteredProfiles)
    /\ filteredProfiles # <<>>

----------------------------------------------------------------------------
(* The external lookups: mapsService.ts and routingService.ts *)

\* what a provider answers to one request: results in the Pittsburgh area,
\* results that are all elsewhere, no result, an HTTP error status, or no
\* answer at all (fetch rejects)
Responses == {"found", "elsewhere", "empty", "http_error", "throws"}

\* the environment of one lookup: whether VITE_MAPBOX_ACCESS_TOKEN is set and
\* what each geocoding provider answers
Networks == [token : BOOLEAN, mapbox : Responses, nominatim : Responses]

\* feature.place_name / result.display_name of the place a query finds
PlaceName(query) ==
    IF query = "460" THEN "460 Main St"
    ELSE IF query \in {"460 S", "460 S G"} THEN "460 S Graham St"
    ELSE query

\* the options a provider's results map to, mapsService.ts lines 126-136 and
\* 174-184
OptionsOf(query, provider) ==
    <<[display |-> PlaceName(query), provider |-> provider]>>

\* the try block of searchAddresses, mapsService.ts lines 93-184: the value it
\* returns, or the error it throws
searchAddressesTry(query, net) ==
    IF Len(query) < 3 THEN [raised |-> FALSE, value |-> <<>>]
    ELSE IF net.token /\ net.mapbox \in {"found", "elsewhere"}
    THEN [raised |-> FALSE,
          value |-> IF net.mapbox = "found" THEN OptionsOf(query, "mapbox") ELSE <<>>]
    ELSE IF net.nominatim \in {"http_error", "throws"}
    THEN [raised |-> TRUE, value |-> <<>>]
    ELSE [raised |-> FALSE,
          value |-> IF net.nominatim = "found" THEN OptionsOf(query, "nominatim")
                    ELSE <<>>]

\* searchAddresses, mapsService.ts lines 87-189: the catch returns []
searchAddresses(query, net) ==
    IF searchAddressesTry(query, net).raised
    THEN [raised |-> FALSE, value |-> <<>>]
    ELSE searchAddressesTry(query, net)

----------------------------------------------------------------------------
(* The address box of the add-profile form: AddProfileForm.tsx, the debounced
   search effect *)

\* texts typed into the address box
Queries == {"46", "460", "460 S", "460 S G"}

\* address searches one form session may issue
MaxRequests == 3

\* the sequence s without its i-th element
RemoveAt(s, i) == [j \in 1..(Len(s) - 1) |-> IF j < i THEN s[j] ELSE s[j + 1]]

\* an idle application after a boot, showing the array ps
Loaded(ps) ==
    /\ profiles = ps
    /\ raw = "json"
    /\ store = ps
    /\ flags = FlagKeys
    /\ loadedProfiles = ps
    /\ needs = {}
    /\ ran = {}
    /\ pc = "idle"
    /\ now = 200
    /\ boots = 1
    /\ ops = 0
    /\ created = 0
    /\ storeAtBoot = <<>>
    /\ bootEnds = [prev |-> <<>>, cur |-> <<>>, flags |-> {}, succ |-> FALSE,
                   kept |-> FALSE, removed |-> {}]
    /\ last = NoOp
    /\ locationType = "all"
    /\ filterType = "all"
    /\ filterTime = DefaultFilterTime
    /\ selectedFields = {}
    /\ filteredProfiles = PhysicalProfiles(ps, "all", "all", DefaultFilterTime, {})
    /\ remoteProfiles = RemoteProfilesList(ps, "all", {})

\* the add-profile form just opened by an authenticated user
SearchInit ==
    /\ Loaded(<<Sample1, Sample20>>)
    /\ isReadOnly = FALSE
    /\ sessionAuthenticated = TRUE
    /\ isAuthenticated = TRUE
    /\ showPasswordPrompt = FALSE
    /\ showAddForm = TRUE
    /\ showCSVUpload = FALSE
    /\ addressQuery = ""
    /\ timeoutId = ""
    /\ requests = <<>>
    /\ issued = 0
    /\ addressOptions = <<>>
    /\ lookup = [fn |-> "none"]

searchFrame == <<raw, store, flags, profiles, loadedProfiles, needs, ran,
                 pc, now, boots, ops, created, storeAtBoot, bootEnds, last,
                 filterVars, authVars, lookup>>

\* the effect on addressQuery, lines 69-92: the cleanup of the previous run
\* clears its timer; a text under 3 characters empties the options, any other
\* starts a 500 ms timer
QueryEffect(query) ==
    /\ addressQuery' = query
    /\ IF Len(query) < 3
       THEN /\ addressOptions' = <<>>
            /\ timeoutId' = ""
       ELSE /\ addressOptions' = addressOptions
            /\ timeoutId' = query
    /\ UNCHANGED <<requests, issued>>

\* the user edits the address box (onChange sets addressQuery)
TypeQuery ==
    \E query \in Queries \ {addressQuery} :
        /\ showAddForm
        /\ QueryEffect(query)
        /\ UNCHANGED searchFrame

\* handleAddressSelect, lines 103-108: the chosen option's text becomes the
\* query; the effect re-runs when that changes addressQuery
handleAddressSelect ==
    \E i \in DOMAIN addressOptions :
        /\ showAddForm
        /\ addressOptions[i].display # addressQuery
        /\ QueryEffect(addressOptions[i].display)
        /\ UNCHANGED searchFrame

\* the timer fires, lines 77-79: the callback calls searchAddresses with the
\* query of its own effect run and awaits the answer
TimerFires ==
    /\ timeoutId # ""
    /\ issued < MaxRequests
    /\ issued' = issued + 1
    /\ requests' = Append(requests, [n |-> issued + 1, query |-> timeoutId])
    /\ timeoutId' = ""
    /\ UNCHANGED <<addressQuery, addressOptions>>
    /\ UNCHANGED searchFrame

\* an awaited searchAddresses call answers, lines 79-81: the callback sets the
\* options to the results; the answers arrive in any order
SearchCompletes ==
    \E i \in DOMAIN requests, net \in Networks :
        /\ addressOptions' = searchAddresses(requests[i].query, net).value
        /\ requests' = RemoveAt(requests, i)
        /\ UNCHANGED <<addressQuery, timeoutId, issued>>
        /\ UNCHANGED searchFrame

SearchNext ==
    \/ TypeQuery
    \/ handleAddressSelect
    \/ TimerFires
    \/ SearchCompletes

SearchSpec == SearchInit /\ [][SearchNext]_vars

\* C21: an answer of an address search changes the displayed options only when
\* it is the answer of the most recently issued search and the address box
\* still holds a text of 3 or more characters; the late answer of an older
\* search leaves the options as they are
C21_OnlyLatestResult ==
    [][\A i \in DOMAIN requests :
          (requests' = RemoveAt(requests, i) /\ addressOptions' # addressOptions)
              => (requests[i].n = issued /\ Len(addressQuery) >= 3)]_vars

----------------------------------------------------------------------------
(* Forward geocoding and the travel-time lookup, called on their own *)

\* a provider answered with at least one result
Answered(response) == response \in {"found", "elsewhere"}

\* geocodeAddress, mapsService.ts lines 23-81: Mapbox when a token is set,
\* then Nominatim; an error of Nominatim, or an empty answer, is thrown, and
\* the outer catch logs it and throws it again
geocodeAddress(address, net) ==
    IF net.token /\ Answered(net.mapbox)
    THEN [raised |-> FALSE, value |-> GeocodeAddress("460 S Graham St")]
    ELSE IF Answered(net.nominatim)
    THEN [raised |-> FALSE, value |-> GeocodeAddress("460 S Graham St")]
    ELSE [raised |-> TRUE, value |-> <<>>]

\* what the routing service answers to one request: a route, no route, an
\* HTTP error status, or no answer at all (fetch rejects)
RouteResponses == {"route", "no_route", "http_error", "throws"}

\* the environment of one leg: the answer to the direct request and the answer
\* the CORS proxy would give
Routers == [direct : RouteResponses, proxy : RouteResponses]

\* routes[0].duration in seconds, by travel mode
RouteSeconds(mode) == IF mode = "driving" THEN 754 ELSE 2690

\* Math.round(duration / 60), routingService.ts lines 102-103
RoundMinutes(seconds) == (seconds + 30) \div 60

\* the response one leg works with, routingService.ts lines 26-42 and 65-81:
\* the proxy is asked only when the direct fetch rejects
LegResponse(router) ==
    IF router.direct = "throws" THEN router.proxy ELSE router.direct

\* the try block of calculateTravelTime, routingService.ts lines 9-108
calculateTravelTimeTry(destination, driving, walking) ==
    IF LegResponse(driving) # "route" \/ LegResponse(walking) # "route"
    THEN [raised |-> TRUE, value |-> <<>>]
    ELSE [raised |-> FALSE,
          value |-> <<RoundMinutes(RouteSeconds("driving")),
                      RoundMinutes(RouteSeconds("walking")), 0>>]

\* calculateTravelTime, routingService.ts lines 7-118: the catch returns
\* zeroes
calculateTravelTime(destination, driving, walking) ==
    IF calculateTravelTimeTry(destination, driving, walking).raised
    THEN [raised |-> FALSE, value |-> <<0, 0, 0>>]
    ELSE calculateTravelTimeTry(destination, driving, walking)

\* an idle application whose services have not been called yet
LookupInit ==
    /\ Loaded(<<Sample1, Sample20>>)
    /\ UiInit

lookupFrame == <<raw, store, flags, profiles, loadedProfiles, needs, ran,
                 pc, now, boots, ops, created, storeAtBoot, bootEnds, last,
                 filterVars, authVars, searchVars>>

\* a caller awaits geocodeAddress (CSVUpload.tsx line 182)
CallGeocodeAddress ==
    \E address \in {"460 S Graham St", "nowhere"}, net \in Networks :
        /\ lookup' = [fn |-> "geocodeAddress", arg |-> address, net |-> net,
                      primaryFailed |-> net.token /\ ~Answered(net.mapbox),
                      allFailed |-> ~(net.token /\ Answered(net.mapbox))
                                    /\ ~Answered(net.nominatim),
                      raised |-> geocodeAddress(address, net).raised,
                      value |-> geocodeAddress(address, net).value]
        /\ UNCHANGED lookupFrame

\* a caller awaits searchAddresses (AddProfileForm.tsx line 80)
CallSearchAddresses ==
    \E query \in Queries, net \in Networks :
        /\ lookup' = [fn |-> "searchAddresses", arg |-> query, net |-> net,
                      primaryFailed |-> net.token /\ ~Answered(net.mapbox),
                      allFailed |-> ~(net.token /\ Answered(net.mapbox))
                                    /\ ~Answered(net.nominatim),
                      raised |-> searchAddresses(query, net).raised,
                      value |-> searchAddresses(query, net).value]
        /\ UNCHANGED lookupFrame

\* a caller awaits calculateTravelTime
CallCalculateTravelTime ==
    \E destination \in {<<52, 52>>}, driving \in Routers, walking \in Routers :
        /\ lookup' = [fn |-> "calculateTravelTime", arg |-> destination, net |-> <<driving, walking>>,
                      primaryFailed |-> driving.direct # "route"
                                        \/ walking.direct # "route",
                      allFailed |-> LegResponse(driving) # "route"
                                    \/ LegResponse(walking) # "route",
                      raised |-> calculateTravelTime(destination, driving, walking).raised,
                      value |-> calculateTravelTime(destination, driving, walking).value]
        /\ UNCHANGED lookupFrame

LookupNext ==
    \/ CallGeocodeAddress
    \/ CallSearchAddresses
    \/ CallCalculateTravelTime

LookupSpec == LookupInit /\ [][LookupNext]_vars

\* C29: no external lookup raises to its caller; when the primary provider
\* fails and the alternate gives no answer either, address search returns the
\* empty list, the travel-time lookup returns (0, 0, 0) and forward geocoding
\* ends in an empty result
C29_LookupsDegrade ==
    lookup.fn # "none" =>
        /\ ~lookup.raised
        /\ (lookup.primaryFailed /\ lookup.allFailed) =>
               lookup.value = IF lookup.fn = "calculateTravelTime"
                              THEN <<0, 0, 0>> ELSE <<>>

----------------------------------------------------------------------------
(* The access gate: App.tsx read-only mode, the password prompt and the
   buttons that open the add-profile form and the CSV-upload dialog *)

\* PasswordPrompt.tsx line 19: the shared access string
correctPassword == "student2024"

\* what a user may type into the password prompt
Passwords == {"student2024", "guess"}

\* App.tsx lines 21-29: the initial isAuthenticated and showPasswordPrompt of a
\* page opened in the given mode with the given sessionStorage item
Mounted(readOnly, session) ==
    [isAuthenticated |-> IF readOnly THEN FALSE ELSE session,
     showPasswordPrompt |-> IF readOnly THEN FALSE ELSE ~session]

\* the page after its mount effect, opened in either mode, in a tab whose
\* session did or did not authenticate before
AuthInit ==
    /\ \E ps \in FilterInputs \ {<<>>} : Loaded(ps)
    /\ isReadOnly \in BOOLEAN
    /\ sessionAuthenticated \in BOOLEAN
    /\ isAuthenticated = Mounted(isReadOnly, sessionAuthenticated).isAuthenticated
    /\ showPasswordPrompt = Mounted(isReadOnly, sessionAuthenticated).showPasswordPrompt
    /\ showAddForm = FALSE
    /\ showCSVUpload = FALSE
    /\ addressQuery = ""
    /\ timeoutId = ""
    /\ requests = <<>>
    /\ issued = 0
    /\ addressOptions = <<>>
    /\ lookup = [fn |-> "none"]

authFrame == <<raw, store, flags, profiles, loadedProfiles, needs, ran,
               pc, now, boots, ops, created, storeAtBoot, bootEnds,
               filterVars, searchVars, lookup>>

\* handleEditAction without the authentication test
handleEditActionOpen == ~isReadOnly

\* handleEditAction, App.tsx lines 389-399: whether it returns true
handleEditAction == ~isReadOnly /\ isAuthenticated

\* handleEditAction, lines 394-397: an unauthenticated editing session is shown
\* the password prompt
EditActionPrompt ==
    IF ~isReadOnly /\ ~isAuthenticated THEN TRUE ELSE showPasswordPrompt

\* the buttons on screen that open the add-profile form: "+ Add Your
\* Profile" of the header (lines 422, 441-450), rendered outside read-only
\* mode, and "Add the First Profile" of the empty state (lines 554-563),
\* rendered when loading is over and there is no profile
AddButtons ==
    (IF ~isReadOnly THEN {"header"} ELSE {})
        \cup (IF pc = "idle" /\ profiles = <<>> THEN {"empty"} ELSE {})

\* a click on one of the add buttons: the header button opens the form when
\* handleEditAction returns true, the empty-state button opens it outright
ClickAddProfile ==
    \E button \in AddButtons :
        /\ showAddForm' = IF button = "empty" \/ handleEditAction THEN TRUE
                          ELSE showAddForm
        /\ showPasswordPrompt' = IF button = "empty" THEN showPasswordPrompt
                                 ELSE EditActionPrompt
        /\ last' = [NoOp EXCEPT !.op = "clickAdd", !.id = button,
                                !.ret = button = "empty" \/ handleEditAction]
        /\ UNCHANGED <<isReadOnly, sessionAuthenticated, isAuthenticated, showCSVUpload>>
        /\ UNCHANGED authFrame

\* a click on "Upload CSV", lines 431-440
ClickUploadCSV ==
    /\ ~isReadOnly
    /\ showCSVUpload' = IF handleEditAction THEN TRUE ELSE showCSVUpload
    /\ showPasswordPrompt' = EditActionPrompt
    /\ last' = [NoOp EXCEPT !.op = "clickCsv", !.id = "header", !.ret = handleEditAction]
    /\ UNCHANGED <<isReadOnly, sessionAuthenticated, isAuthenticated, showAddForm>>
    /\ UNCHANGED authFrame

\* PasswordPrompt handleSubmit, PasswordPrompt.tsx lines 14-30, with App
\* handlePasswordSuccess, App.tsx lines 401-404
SubmitPassword ==
    \E password \in Passwords :
        /\ showPasswordPrompt
        /\ IF password = correctPassword
           THEN /\ sessionAuthenticated' = TRUE
                /\ isAuthenticated' = TRUE
                /\ showPasswordPrompt' = FALSE
           ELSE UNCHANGED <<sessionAuthenticated, isAuthenticated, showPasswordPrompt>>
        /\ last' = [NoOp EXCEPT !.op = "password", !.ret = password = correctPassword]
        /\ UNCHANGED <<isReadOnly, showAddForm, showCSVUpload>>
        /\ UNCHANGED authFrame

\* a click on "Logout", lines 451-463
Logout ==
    /\ ~isReadOnly
    /\ isAuthenticated
    /\ sessionAuthenticated' = FALSE
    /\ isAuthenticated' = FALSE
    /\ showPasswordPrompt' = TRUE
    /\ last' = [NoOp EXCEPT !.op = "logout"]
    /\ UNCHANGED <<isReadOnly, showAddForm, showCSVUpload>>
    /\ UNCHANGED authFrame

\* onClose of the add-profile form, line 575
CloseAddForm ==
    /\ showAddForm
    /\ showAddForm' = FALSE
    /\ last' = [NoOp EXCEPT !.op = "closeAdd"]
    /\ UNCHANGED <<isReadOnly, sessionAuthenticated, isAuthenticated,
                   showPasswordPrompt, showCSVUpload>>
    /\ UNCHANGED authFrame

\* onClose of the CSV-upload dialog, line 581
CloseCSVUpload ==
    /\ showCSVUpload
    /\ showCSVUpload' = FALSE
    /\ last' = [NoOp EXCEPT !.op = "closeCsv"]
    /\ UNCHANGED <<isReadOnly, sessionAuthenticated, isAuthenticated,
                   showPasswordPrompt, showAddForm>>
    /\ UNCHANGED authFrame

\* the page is opened again in the same tab, in either mode: the App state
\* starts over, sessionStorage stays (lines 18-29, 35, 41)
OpenPage ==
    \E readOnly \in BOOLEAN :
        /\ isReadOnly' = readOnly
        /\ isAuthenticated' = Mounted(readOnly, sessionAuthenticated).isAuthenticated
        /\ showPasswordPrompt' = Mounted(readOnly, sessionAuthenticated).showPasswordPrompt
        /\ showAddForm' = FALSE
        /\ showCSVUpload' = FALSE
        /\ last' = [NoOp EXCEPT !.op = "open"]
        /\ UNCHANGED sessionAuthenticated
        /\ UNCHANGED authFrame

AuthNext ==
    \/ ClickAddProfile
    \/ ClickUploadCSV
    \/ SubmitPassword
    \/ Logout
    \/ CloseAddForm
    \/ CloseCSVUpload
    \/ OpenPage

AuthSpec == AuthInit /\ [][AuthNext]_vars

\* a finished mount effect leaves at least one profile to show, so the empty
\* state (App.tsx line 554) and its button are not rendered; holds of Spec
ProfilesAfterLoad == (pc = "idle") => profiles # <<>>

\* a step opens the add-profile form or the CSV-upload dialog
Opens ==
    \/ ~showAddForm /\ showAddForm'
    \/ ~showCSVUpload /\ showCSVUpload'

====
